---- MODULE Spec2Model ----
(***************************************************************************)
(* Model of blimu-cli: the local configuration validation engine          *)
(* (pkg/blimu/validator.go), the loading and serialisation of the .blimu   *)
(* directory and the merge of OpenAPI documents (pkg/config), and the      *)
(* commands validate, generate and definitions update that use them; the   *)
(* writing of the .blimu directory by pull, the CLI configuration with its *)
(* environments (pkg/config/cli_config.go), and the login with its         *)
(* callback server (cmd/auth/login.go, internal/oauth/server.go).          *)
(* Each part has its specification: Spec (ValidateConfig), LoadSpec        *)
(* (LoadBlimuConfig, MergeToJSON), MergeSpec (MergeOpenAPISpecs), CLISpec  *)
(* (the commands), CycleSpec (hasCircularDependency call by call),         *)
(* SaveSpec (SaveBlimuConfig then LoadBlimuConfig), EnvSpec (the           *)
(* environments of CLIConfig) and LoginSpec (LoginCommand.Run with the     *)
(* requests reaching /callback).                                           *)
(*                                                                         *)
(* Go strings are sequences of one-character strings, so that              *)
(* strings.Split and strings.TrimSpace are computed, not assumed.  The     *)
(* Resource and Field of a ValidationError are such character sequences.   *)
(* A Message is the sequence of the pieces fmt.Sprintf joins: the literal  *)
(* pieces of the format string kept whole, the %s arguments spliced in     *)
(* character by character.                                                 *)
(*                                                                         *)
(* Go maps are functions; ranging over a map visits its keys in an order   *)
(* the runtime chooses, which the model leaves nondeterministic.           *)
(***************************************************************************)
EXTENDS Integers, Sequences, FiniteSets, Bags, TLC

VARIABLES
    config,      \* the BlimuConfig a command loads and ValidateConfig reads
    pc,          \* ValidateConfig: the statement it is at
    todo,        \* ValidateConfig: the keys its current range loop has left
    errors,      \* ValidateConfig: result.Errors
    valid,       \* ValidateConfig: result.Valid
    first,       \* what an earlier call of ValidateConfig returned
    files,       \* the files of the .blimu directory
    nilMaps,     \* the sections of config whose map is nil
    loadResult,  \* what LoadBlimuConfig returned
    command,     \* the command run and its flags
    cpc,         \* the statement the command is at
    clientAt,    \* runGenerate: the index of the client its loop is at
    calls,       \* the requests sent to the Blimu API so far, with their outcome
    exitCode,    \* the exit status of the process
    payload,     \* the output of MergeToJSON
    heap,        \* the Go maps of the OpenAPI documents, by address
    heapAtCall,  \* heap as it was when MergeOpenAPISpecs was called
    mergedSpec,  \* the address MergeOpenAPISpecs returned, 0 before
    heapAtFetch, \* heap as it was when FetchOpenAPISpec returned
    stack,       \* the calls of hasCircularDependency in progress, innermost last
    visitedMap,  \* the map visited those calls share
    cycleTarget, \* the argument target of those calls
    returned,    \* what the call that returned last answered, "none" before
    saved,       \* the configuration handed to SaveBlimuConfig
    saveResult,  \* how SaveBlimuConfig returned, "none" before
    cliConfig,   \* the CLIConfig in memory: CurrentEnvironment and Environments
    stored,      \* the CLI configuration file ~/.blimu/config.yml
    envResult,   \* how the last method called on cliConfig returned
    codeChan,    \* CallbackServer.codeChan, a channel with one slot
    handlers,    \* the requests to /callback: where the handler of each stands
    ctxDone,     \* whether the context of the login attempt is done
    delivered,   \* what WaitForCallback returned, one entry per return
    accepted     \* the results sent into codeChan so far, in order

loadVars == <<files, nilMaps, loadResult>>
cliVars == <<command, cpc, clientAt, calls, exitCode, payload>>
mergeVars == <<heap, heapAtCall, mergedSpec, heapAtFetch>>
cycleVars == <<stack, visitedMap, cycleTarget, returned>>
saveVars == <<saved, saveResult>>
envVars == <<cliConfig, stored, envResult>>
oauthVars == <<codeChan, handlers, ctxDone, delivered, accepted>>

\* what the validator, the loader, the merge and the commands have no access to
others == <<cycleVars, saveVars, envVars, oauthVars>>

\* others, less the variables of one part
besideCycle == <<saveVars, envVars, oauthVars>>
besideSave == <<cycleVars, envVars, oauthVars>>
besideEnv == <<cycleVars, saveVars, oauthVars>>
besideLogin == <<cycleVars, saveVars>>

\* everything ValidateConfig has no access to
outside == <<first, loadVars, cliVars, mergeVars, others>>

vars == <<config, pc, todo, errors, valid, outside>>

----------------------------------------------------------------------------
(* Strings *)

RECURSIVE Index(_, _)
\* strings.Index: position of the first instance of sep in s, 0 when absent
Index(s, sep) ==
    IF Len(s) < Len(sep) THEN 0
    ELSE IF SubSeq(s, 1, Len(sep)) = sep THEN 1
    ELSE LET r == Index(Tail(s), sep) IN IF r = 0 THEN 0 ELSE r + 1

RECURSIVE Split(_, _)
\* strings.Split for a non-empty separator
Split(s, sep) ==
    LET i == Index(s, sep) IN
    IF i = 0 THEN <<s>>
    ELSE <<SubSeq(s, 1, i - 1)>> \o Split(SubSeq(s, i + Len(sep), Len(s)), sep)

\* unicode.IsSpace on the characters the model draws from
IsSpace(c) == c \in {" ", "\t", "\n", "\r"}

RECURSIVE TrimLeft(_)
TrimLeft(s) == IF s # <<>> /\ IsSpace(Head(s)) THEN TrimLeft(Tail(s)) ELSE s

RECURSIVE TrimRight(_)
TrimRight(s) ==
    IF s # <<>> /\ IsSpace(s[Len(s)]) THEN TrimRight(SubSeq(s, 1, Len(s) - 1)) ELSE s

\* strings.TrimSpace
TrimSpace(s) == TrimRight(TrimLeft(s))

Digit(d) == <<"0", "1", "2", "3", "4", "5", "6", "7", "8", "9">>[d + 1]

RECURSIVE Itoa(_)
\* the %d verb of fmt.Sprintf, for n >= 0
Itoa(n) == IF n < 10 THEN <<Digit(n)>> ELSE Itoa(n \div 10) \o <<Digit(n % 10)>>

RECURSIVE Join(_, _)
\* strings.Join
Join(elems, sep) ==
    IF elems = <<>> THEN <<>>
    ELSE IF Len(elems) = 1 THEN elems[1]
    ELSE elems[1] \o sep \o Join(Tail(elems), sep)

\* the literal strings the validator writes into Resource and Field
S_roles == <<"r", "o", "l", "e", "s">>
S_roles_inheritance ==
    <<"r", "o", "l", "e", "s", "_", "i", "n", "h", "e", "r", "i", "t", "a", "n", "c", "e">>
S_parents == <<"p", "a", "r", "e", "n", "t", "s">>
S_entitlements == <<"e", "n", "t", "i", "t", "l", "e", "m", "e", "n", "t", "s">>
S_features == <<"f", "e", "a", "t", "u", "r", "e", "s">>
S_plans == <<"p", "l", "a", "n", "s">>
S_config == <<"c", "o", "n", "f", "i", "g">>
S_clients == <<"c", "l", "i", "e", "n", "t", "s">>
S_typescript == <<"t", "y", "p", "e", "s", "c", "r", "i", "p", "t">>
S_go == <<"g", "o">>
S_dot_type == <<".", "t", "y", "p", "e">>
S_dot_outDir == <<".", "o", "u", "t", "D", "i", "r">>
S_dot_packageName == <<".", "p", "a", "c", "k", "a", "g", "e", "N", "a", "m", "e">>
S_dot_name == <<".", "n", "a", "m", "e">>
S_dot_moduleName == <<".", "m", "o", "d", "u", "l", "e", "N", "a", "m", "e">>

\* the orders in which a range loop may visit the keys S of a map
Orders(S) ==
    {o \in [1..Cardinality(S) -> S] : \A x \in S : \E i \in 1..Cardinality(S) : o[i] = x}

----------------------------------------------------------------------------
(* pkg/blimu/validator.go *)

ValidationError(resource, field, message) ==
    [Resource |-> resource, Field |-> field, Message |-> message]

\* contains with its loop started at the second element
contains_skipFirst(slice, item) == \E i \in 2..Len(slice) : slice[i] = item

contains(slice, item) == \E i \in 1..Len(slice) : slice[i] = item

\* validateInheritance without the two strings.TrimSpace calls
validateInheritance_noTrim(inheritance, allResources) ==
    LET parts == Split(inheritance, <<"-", ">">>) IN
    IF Len(parts) # 2
    THEN [isNil |-> FALSE, text |-> <<"inheritance must be in format 'resource->role'">>]
    ELSE
        LET resourceName == parts[1]
            roleName == parts[2]
        IN  IF resourceName \notin DOMAIN allResources
            THEN [isNil |-> FALSE,
                  text |-> <<"resource '">> \o resourceName \o <<"' not found">>]
            ELSE IF ~contains(allResources[resourceName].Roles, roleName)
            THEN [isNil |-> FALSE,
                  text |-> <<"role '">> \o roleName \o <<"' not found in resource '">>
                           \o resourceName \o <<"'">>]
            ELSE [isNil |-> TRUE, text |-> <<>>]

\* the error validateInheritance returns: isNil, or the pieces of its text
validateInheritance(inheritance, allResources) ==
    LET parts == Split(inheritance, <<"-", ">">>) IN
    IF Len(parts) # 2
    THEN [isNil |-> FALSE, text |-> <<"inheritance must be in format 'resource->role'">>]
    ELSE
        LET resourceName == TrimSpace(parts[1])
            roleName == TrimSpace(parts[2])
        IN  IF resourceName \notin DOMAIN allResources
            THEN [isNil |-> FALSE,
                  text |-> <<"resource '">> \o resourceName \o <<"' not found">>]
            ELSE IF ~contains(allResources[resourceName].Roles, roleName)
            THEN [isNil |-> FALSE,
                  text |-> <<"role '">> \o roleName \o <<"' not found in resource '">>
                           \o resourceName \o <<"'">>]
            ELSE [isNil |-> TRUE, text |-> <<>>]

RECURSIVE hasCircularDependency_anyRevisit(_, _, _, _)
\* hasCircularDependency answering true on any revisited name, not the target only
hasCircularDependency_anyRevisit(current, target, allResources, visited) ==
    IF current \in visited THEN TRUE
    ELSE IF current \notin DOMAIN allResources THEN FALSE
    ELSE \E parentName \in DOMAIN allResources[current].Parents :
            \/ parentName = target
            \/ hasCircularDependency_anyRevisit(parentName, target, allResources,
                                                visited \cup {current})

\* hasCircularDependency without its recursive call
hasCircularDependency_directOnly(current, target, allResources, visited) ==
    IF current \in visited THEN current = target
    ELSE IF current \notin DOMAIN allResources THEN FALSE
    ELSE \E parentName \in DOMAIN allResources[current].Parents : parentName = target

RECURSIVE hasCircularDependency(_, _, _, _)
\* visited is passed by value here: every return path of the Go function that
\* has added current to the shared map deletes it again before returning.
hasCircularDependency(current, target, allResources, visited) ==
    IF current \in visited THEN current = target
    ELSE IF current \notin DOMAIN allResources THEN FALSE
    ELSE \E parentName \in DOMAIN allResources[current].Parents :
            \/ parentName = target
            \/ hasCircularDependency(parentName, target, allResources,
                                     visited \cup {current})

RECURSIVE inheritanceListErrors(_, _, _)
\* validateResource, the loop over one role's inheritances
inheritanceListErrors(name, inheritances, allResources) ==
    IF inheritances = <<>> THEN <<>>
    ELSE
        LET inheritance == Head(inheritances)
            err == validateInheritance(inheritance, allResources)
        IN  (IF ~err.isNil
             THEN <<ValidationError(name, S_roles_inheritance,
                        <<"invalid inheritance '">> \o inheritance \o <<"': ">>
                        \o err.text)>>
             ELSE <<>>)
            \o inheritanceListErrors(name, Tail(inheritances), allResources)

RECURSIVE rolesInheritanceErrors_skipUnknown(_, _, _, _)
\* the loop going on to the next key once a key is found to be no role
rolesInheritanceErrors_skipUnknown(name, resource, allResources, order) ==
    IF order = <<>> THEN <<>>
    ELSE
        LET role == Head(order) IN
        (IF ~contains(resource.Roles, role)
         THEN <<ValidationError(name, S_roles_inheritance,
                    <<"role '">> \o role \o <<"' not found in roles list">>)>>
         ELSE inheritanceListErrors(name, resource.RolesInheritance[role],
                                    allResources))
        \o rolesInheritanceErrors_skipUnknown(name, resource, allResources,
                                              Tail(order))

RECURSIVE rolesInheritanceErrors(_, _, _, _)
\* validateResource, the loop over resource.RolesInheritance in the order given
rolesInheritanceErrors(name, resource, allResources, order) ==
    IF order = <<>> THEN <<>>
    ELSE
        LET role == Head(order) IN
        (IF ~contains(resource.Roles, role)
         THEN <<ValidationError(name, S_roles_inheritance,
                    <<"role '">> \o role \o <<"' not found in roles list">>)>>
         ELSE <<>>)
        \o inheritanceListErrors(name, resource.RolesInheritance[role], allResources)
        \o rolesInheritanceErrors(name, resource, allResources, Tail(order))

RECURSIVE parentsErrors_noExistsCheck(_, _, _)
\* the loop over resource.Parents without the check of lines 95-102
parentsErrors_noExistsCheck(name, allResources, order) ==
    IF order = <<>> THEN <<>>
    ELSE
        LET parentName == Head(order) IN
        (IF hasCircularDependency(parentName, name, allResources, {})
         THEN <<ValidationError(name, S_parents,
                    <<"circular dependency detected with parent '">>
                    \o parentName \o <<"'">>)>>
         ELSE <<>>)
        \o parentsErrors_noExistsCheck(name, allResources, Tail(order))

RECURSIVE parentsErrors(_, _, _)
\* validateResource, the loop over resource.Parents in the order given
parentsErrors(name, allResources, order) ==
    IF order = <<>> THEN <<>>
    ELSE
        LET parentName == Head(order) IN
        (IF parentName \notin DOMAIN allResources
         THEN <<ValidationError(name, S_parents,
                    <<"parent resource '">> \o parentName \o <<"' not found">>)>>
         ELSE <<>>)
        \o (IF hasCircularDependency(parentName, name, allResources, {})
            THEN <<ValidationError(name, S_parents,
                       <<"circular dependency detected with parent '">>
                       \o parentName \o <<"'">>)>>
            ELSE <<>>)
        \o parentsErrors(name, allResources, Tail(order))

\* validateResource without the check of lines 65-71
validateResource_noRolesCheck(name, resource, allResources, inhOrder, parOrder) ==
    rolesInheritanceErrors(name, resource, allResources, inhOrder)
    \o parentsErrors(name, allResources, parOrder)

\* the errors one call appends to result.Errors
validateResource(name, resource, allResources, inhOrder, parOrder) ==
    (IF Len(resource.Roles) = 0
     THEN <<ValidationError(name, S_roles, <<"at least one role must be defined">>)>>
     ELSE <<>>)
    \o rolesInheritanceErrors(name, resource, allResources, inhOrder)
    \o parentsErrors(name, allResources, parOrder)

RECURSIVE entitlementRolesErrors_firstOnly(_, _, _, _)
\* the loop over entitlement.Roles left at the first role not found
entitlementRolesErrors_firstOnly(name, roles, resource, resourceName) ==
    IF roles = <<>> THEN <<>>
    ELSE
        LET role == Head(roles) IN
        IF ~contains(resource.Roles, role)
        THEN <<ValidationError(S_entitlements, name,
                   <<"role '">> \o role \o <<"' not found in resource '">>
                   \o resourceName \o <<"'">>)>>
        ELSE entitlementRolesErrors_firstOnly(name, Tail(roles), resource, resourceName)

RECURSIVE entitlementRolesErrors(_, _, _, _)
\* validateEntitlement, the loop over entitlement.Roles
entitlementRolesErrors(name, roles, resource, resourceName) ==
    IF roles = <<>> THEN <<>>
    ELSE
        LET role == Head(roles) IN
        (IF ~contains(resource.Roles, role)
         THEN <<ValidationError(S_entitlements, name,
                    <<"role '">> \o role \o <<"' not found in resource '">>
                    \o resourceName \o <<"'">>)>>
         ELSE <<>>)
        \o entitlementRolesErrors(name, Tail(roles), resource, resourceName)

RECURSIVE plansExistErrors(_, _, _, _)
\* validateEntitlement and validateFeature, the loop over the entry's Plans
plansExistErrors(section, name, plans, cfg) ==
    IF plans = <<>> THEN <<>>
    ELSE
        LET plan == Head(plans) IN
        (IF plan \notin DOMAIN cfg.Plans
         THEN <<ValidationError(section, name,
                    <<"plan '">> \o plan \o <<"' not found in plans.yml">>)>>
         ELSE <<>>)
        \o plansExistErrors(section, name, Tail(plans), cfg)

\* validateEntitlement returning once the resource is not found
validateEntitlement_returnOnMissingResource(name, entitlement, cfg) ==
    LET parts == Split(name, <<":">>) IN
    IF Len(parts) # 2
    THEN <<ValidationError(S_entitlements, name,
               <<"entitlement name must be in format 'resource:action'">>)>>
    ELSE
        LET resourceName == parts[1] IN
        IF resourceName \notin DOMAIN cfg.Resources
        THEN <<ValidationError(S_entitlements, name,
                   <<"resource '">> \o resourceName
                   \o <<"' not found in resources.yml">>)>>
        ELSE entitlementRolesErrors(name, entitlement.Roles,
                                    cfg.Resources[resourceName], resourceName)
             \o plansExistErrors(S_entitlements, name, entitlement.Plans, cfg)

validateEntitlement(name, entitlement, cfg) ==
    LET parts == Split(name, <<":">>) IN
    IF Len(parts) # 2
    THEN <<ValidationError(S_entitlements, name,
               <<"entitlement name must be in format 'resource:action'">>)>>
    ELSE
        LET resourceName == parts[1] IN
        (IF resourceName \notin DOMAIN cfg.Resources
         THEN <<ValidationError(S_entitlements, name,
                    <<"resource '">> \o resourceName
                    \o <<"' not found in resources.yml">>)>>
         ELSE <<>>)
        \o (IF resourceName \in DOMAIN cfg.Resources
            THEN entitlementRolesErrors(name, entitlement.Roles,
                                        cfg.Resources[resourceName], resourceName)
            ELSE <<>>)
        \o plansExistErrors(S_entitlements, name, entitlement.Plans, cfg)

RECURSIVE entitlementsExistErrors(_, _, _)
\* validateFeature, the loop over feature.Entitlements
entitlementsExistErrors(name, entitlements, cfg) ==
    IF entitlements = <<>> THEN <<>>
    ELSE
        LET entitlement == Head(entitlements) IN
        (IF entitlement \notin DOMAIN cfg.Entitlements
         THEN <<ValidationError(S_features, name,
                    <<"entitlement '">> \o entitlement
                    \o <<"' not found in entitlements.yml">>)>>
         ELSE <<>>)
        \o entitlementsExistErrors(name, Tail(entitlements), cfg)

validateFeature(name, feature, cfg) ==
    plansExistErrors(S_features, name, feature.Plans, cfg)
    \o entitlementsExistErrors(name, feature.Entitlements, cfg)

validatePlan(name, plan) ==
    (IF TrimSpace(plan.Name) = <<>>
     THEN <<ValidationError(S_plans, name, <<"plan must have a name">>)>>
     ELSE <<>>)
    \o (IF TrimSpace(plan.Description) = <<>>
        THEN <<ValidationError(S_plans, name, <<"plan must have a description">>)>>
        ELSE <<>>)

\* fmt.Sprintf("clients[%d]", i), i counted from 0 as in Go
clientName(i) == S_clients \o <<"[">> \o Itoa(i) \o <<"]">>

supportedTypes == <<S_typescript, S_go>>

\* validateSDKConfig, the body of the first loop for the client at Go index i
clientErrors(i, client) ==
    (IF TrimSpace(client.Type) = <<>>
     THEN <<ValidationError(S_config, clientName(i) \o S_dot_type,
                <<"client type is required">>)>>
     ELSE IF ~contains(supportedTypes, client.Type)
     THEN <<ValidationError(S_config, clientName(i) \o S_dot_type,
                <<"unsupported client type '">> \o client.Type
                \o <<"'. Supported types: ">> \o Join(supportedTypes, <<",", " ">>))>>
     ELSE <<>>)
    \o (IF TrimSpace(client.OutDir) = <<>>
        THEN <<ValidationError(S_config, clientName(i) \o S_dot_outDir,
                   <<"output directory is required">>)>>
        ELSE <<>>)
    \o (IF TrimSpace(client.PackageName) = <<>>
        THEN <<ValidationError(S_config, clientName(i) \o S_dot_packageName,
                   <<"package name is required">>)>>
        ELSE <<>>)
    \o (IF TrimSpace(client.Name) = <<>>
        THEN <<ValidationError(S_config, clientName(i) \o S_dot_name,
                   <<"client name is required">>)>>
        ELSE <<>>)
    \o (IF client.Type = S_go /\ TrimSpace(client.ModuleName) = <<>>
        THEN <<ValidationError(S_config, clientName(i) \o S_dot_moduleName,
                   <<"module name is required for Go clients">>)>>
        ELSE <<>>)

RECURSIVE allClientErrors(_, _)
\* validateSDKConfig, the first loop, from Go index i on
allClientErrors(clients, i) ==
    IF i >= Len(clients) THEN <<>>
    ELSE clientErrors(i, clients[i + 1]) \o allClientErrors(clients, i + 1)

RECURSIVE duplicateOutDirErrors_latest(_, _, _)
\* the map entry overwritten by every client, so that it names the latest one
duplicateOutDirErrors_latest(clients, i, outDirs) ==
    IF i >= Len(clients) THEN <<>>
    ELSE
        LET client == clients[i + 1] IN
        IF client.OutDir # <<>>
        THEN (IF client.OutDir \in DOMAIN outDirs
              THEN <<ValidationError(S_config, clientName(i) \o S_dot_outDir,
                         <<"output directory '">> \o client.OutDir
                         \o <<"' is already used by clients[">>
                         \o Itoa(outDirs[client.OutDir]) \o <<"]">>)>>
              ELSE <<>>)
             \o duplicateOutDirErrors_latest(clients, i + 1,
                    [k \in DOMAIN outDirs \cup {client.OutDir} |->
                        IF k = client.OutDir THEN i ELSE outDirs[k]])
        ELSE duplicateOutDirErrors_latest(clients, i + 1, outDirs)

RECURSIVE duplicateOutDirErrors(_, _, _)
\* validateSDKConfig, the second loop, from Go index i on; outDirs is the map
\* from an output directory to the index of the first client using it
duplicateOutDirErrors(clients, i, outDirs) ==
    IF i >= Len(clients) THEN <<>>
    ELSE
        LET client == clients[i + 1] IN
        IF client.OutDir # <<>>
        THEN IF client.OutDir \in DOMAIN outDirs
             THEN <<ValidationError(S_config, clientName(i) \o S_dot_outDir,
                        <<"output directory '">> \o client.OutDir
                        \o <<"' is already used by clients[">>
                        \o Itoa(outDirs[client.OutDir]) \o <<"]">>)>>
                  \o duplicateOutDirErrors(clients, i + 1, outDirs)
             ELSE duplicateOutDirErrors(clients, i + 1,
                                        (client.OutDir :> i) @@ outDirs)
        ELSE duplicateOutDirErrors(clients, i + 1, outDirs)

validateSDKConfig(sdkConfig) ==
    IF Len(sdkConfig.Clients) = 0
    THEN <<ValidationError(S_config, S_clients,
               <<"at least one client must be defined">>)>>
    ELSE allClientErrors(sdkConfig.Clients, 0)
         \o duplicateOutDirErrors(sdkConfig.Clients, 0, <<>>)

\* Valid left as line 30 set it
resultValid_stale(errs) == TRUE

\* ValidateConfig line 59
resultValid(errs) == Len(errs) = 0

----------------------------------------------------------------------------
(* ValidateConfig as a state machine: one step per iteration of its range  *)
(* loops, pc naming the loop it is in, todo the keys not yet visited.      *)

\* the keys the loop that pc names ranges over
sectionKeys(cfg, section) ==
    CASE section = "resources" -> DOMAIN cfg.Resources
      [] section = "entitlements" -> DOMAIN cfg.Entitlements
      [] section = "features" -> DOMAIN cfg.Features
      [] section = "plans" -> DOMAIN cfg.Plans
      [] OTHER -> {}

\* the statement after the loop that pc names
nextSection(section) ==
    CASE section = "resources" -> "entitlements"
      [] section = "entitlements" -> "features"
      [] section = "features" -> "plans"
      [] section = "plans" -> "sdk"

\* a list as the multiset of its entries
BagOfSeq(s) ==
    [e \in {s[i] : i \in 1..Len(s)} |-> Cardinality({i \in 1..Len(s) : s[i] = e})]

\* no earlier call
NoResult == [called |-> FALSE, Valid |-> TRUE, Errors |-> EmptyBag]

\* the resources loop left at the first resource found with an error
StepResource_breakOnError ==
    /\ pc = "resources"
    /\ \E resourceName \in todo :
        LET resourceConfig == config.Resources[resourceName] IN
        \E inhOrder \in Orders(DOMAIN resourceConfig.RolesInheritance),
           parOrder \in Orders(DOMAIN resourceConfig.Parents) :
            LET found == validateResource(resourceName, resourceConfig,
                                          config.Resources, inhOrder, parOrder)
            IN  /\ errors' = errors \o found
                /\ todo' = IF found = <<>> THEN todo \ {resourceName} ELSE {}
    /\ UNCHANGED <<config, pc, valid, outside>>

\* lines 35-37, one iteration
StepResource ==
    /\ pc = "resources"
    /\ \E resourceName \in todo :
        LET resourceConfig == config.Resources[resourceName] IN
        \E inhOrder \in Orders(DOMAIN resourceConfig.RolesInheritance),
           parOrder \in Orders(DOMAIN resourceConfig.Parents) :
            /\ errors' = errors \o validateResource(resourceName, resourceConfig,
                                      config.Resources, inhOrder, parOrder)
            /\ todo' = todo \ {resourceName}
    /\ UNCHANGED <<config, pc, valid, outside>>

\* lines 40-42, one iteration
StepEntitlement ==
    /\ pc = "entitlements"
    /\ \E entitlementName \in todo :
        /\ errors' = errors \o validateEntitlement(entitlementName,
                                  config.Entitlements[entitlementName], config)
        /\ todo' = todo \ {entitlementName}
    /\ UNCHANGED <<config, pc, valid, outside>>

\* lines 45-47, one iteration
StepFeature ==
    /\ pc = "features"
    /\ \E featureName \in todo :
        /\ errors' = errors \o validateFeature(featureName,
                                  config.Features[featureName], config)
        /\ todo' = todo \ {featureName}
    /\ UNCHANGED <<config, pc, valid, outside>>

\* lines 50-52, one iteration
StepPlan ==
    /\ pc = "plans"
    /\ \E planName \in todo :
        /\ errors' = errors \o validatePlan(planName, config.Plans[planName])
        /\ todo' = todo \ {planName}
    /\ UNCHANGED <<config, pc, valid, outside>>

\* a range loop ends when every key has been visited
LoopExit ==
    /\ pc \in {"resources", "entitlements", "features", "plans"}
    /\ todo = {}
    /\ pc' = nextSection(pc)
    /\ todo' = sectionKeys(config, pc')
    /\ UNCHANGED <<config, errors, valid, outside>>

\* the SDK section checked only while no error has been found
StepSDK_unlessErrors ==
    /\ pc = "sdk"
    /\ errors' = IF ~config.SDKConfig.isNil /\ errors = <<>>
                 THEN errors \o validateSDKConfig(config.SDKConfig)
                 ELSE errors
    /\ pc' = "return"
    /\ UNCHANGED <<config, todo, valid, outside>>

\* lines 55-57
StepSDK ==
    /\ pc = "sdk"
    /\ errors' = IF ~config.SDKConfig.isNil
                 THEN errors \o validateSDKConfig(config.SDKConfig)
                 ELSE errors
    /\ pc' = "return"
    /\ UNCHANGED <<config, todo, valid, outside>>

\* lines 59-60
Return ==
    /\ pc = "return"
    /\ valid' = resultValid(errors)
    /\ pc' = "done"
    /\ UNCHANGED <<config, todo, errors, outside>>

\* the caller keeps what the call returned and calls ValidateConfig again on
\* the same configuration: lines 29-32 start from a fresh result
SecondCall ==
    /\ pc = "done"
    /\ ~first.called
    /\ first' = [called |-> TRUE, Valid |-> valid, Errors |-> BagOfSeq(errors)]
    /\ pc' = "resources"
    /\ todo' = DOMAIN config.Resources
    /\ errors' = <<>>
    /\ valid' = TRUE
    /\ UNCHANGED <<config, loadVars, cliVars, mergeVars, others>>

Next ==
    \/ StepResource
    \/ StepEntitlement
    \/ StepFeature
    \/ StepPlan
    \/ LoopExit
    \/ StepSDK
    \/ Return
    \/ SecondCall

----------------------------------------------------------------------------
(* The configurations validated: what LoadBlimuConfig can hand over.       *)

MaxEdges == 5
MaxRing == 5
MaxEntNameLen == 3
MaxEntRoles == 2
MaxEntPlans == 1
MaxTokenLen == 5
MaxTokens == 2
MaxClients == 3

SeqsUpTo(A, n) == UNION {[1..k -> A] : k \in 0..n}

ResourceConfig(roles, rolesInheritance, parents) ==
    [Roles |-> roles, RolesInheritance |-> rolesInheritance, Parents |-> parents]

ParentsOf(S) == [p \in S |-> [Required |-> TRUE]]

NoSDK == [isNil |-> TRUE, Clients |-> <<>>]

SDK(clients) == [isNil |-> FALSE, Clients |-> clients]

BlimuConfig(resources, entitlements, features, plans, sdk) ==
    [Resources |-> resources, Entitlements |-> entitlements, Features |-> features,
     Plans |-> plans, SDKConfig |-> sdk]

GoodPlan == [Name |-> <<"P">>, Description |-> <<"D">>]

\* every parents graph of up to MaxEdges edges from three resources to one
\* another, to themselves and to one name (g) that is no resource
GraphNames == {<<"a">>, <<"b">>, <<"c">>}
GraphConfigs ==
    {BlimuConfig([n \in GraphNames |->
                    ResourceConfig(<<<<"x">>>>, <<>>,
                                   ParentsOf({e[2] : e \in {d \in E : d[1] = n}}))],
                 <<>>, <<>>, <<>>, NoSDK) :
        E \in {D \in SUBSET (GraphNames \X (GraphNames \cup {<<"g">>})) :
                  Cardinality(D) <= MaxEdges}}

\* rings n1 -> n2 -> ... -> nk -> n1 of every length up to MaxRing, alone, with a
\* resource t outside the ring whose parent is on it, and with one edge removed
node(i) == <<"n">> \o Itoa(i)
RingParents(k, i) == {node(IF i = k THEN 1 ELSE i + 1)}
RingConfigs ==
    {BlimuConfig(
        [n \in {node(i) : i \in 1..k} \cup tail |->
            IF n = <<"t">> THEN ResourceConfig(<<<<"x">>>>, <<>>, ParentsOf({node(1)}))
            ELSE LET i == CHOOSE j \in 1..k : node(j) = n IN
                 ResourceConfig(<<<<"x">>>>, <<>>,
                                ParentsOf(IF i = cut THEN {} ELSE RingParents(k, i)))],
        <<>>, <<>>, <<>>, NoSDK) :
        k \in 1..MaxRing, tail \in {{}, {<<"t">>}}, cut \in 0..1}

\* r -> p, p -> {u, v}, u -> w, v -> w: w is reached twice in one traversal from
\* p; w has no parent, or closes a cycle through r, or one through p only
DiamondConfigs ==
    {BlimuConfig(
        (<<"r">> :> ResourceConfig(<<<<"x">>>>, <<>>, ParentsOf({<<"p">>})))
        @@ (<<"p">> :> ResourceConfig(<<<<"x">>>>, <<>>, ParentsOf({<<"u">>, <<"v">>})))
        @@ (<<"u">> :> ResourceConfig(<<<<"x">>>>, <<>>, ParentsOf({<<"w">>})))
        @@ (<<"v">> :> ResourceConfig(<<<<"x">>>>, <<>>, ParentsOf({<<"w">>})))
        @@ (<<"w">> :> ResourceConfig(<<<<"x">>>>, <<>>, ParentsOf(back))),
        <<>>, <<>>, <<>>, NoSDK) :
        back \in {{}, {<<"r">>}, {<<"p">>}}}

\* one entitlement under every name of up to MaxEntNameLen characters drawn from
\* o (a resource), n (no resource) and the colon; role x exists in o, z does not;
\* plan p exists, q does not; the resource with the empty name may exist
EntitlementNames == SeqsUpTo({"o", "n", ":"}, MaxEntNameLen)
EntitlementConfigs ==
    {BlimuConfig(
        [n \in {<<"o">>} \cup extra |-> ResourceConfig(<<<<"x">>>>, <<>>, <<>>)],
        name :> [Roles |-> roles, Plans |-> plans],
        <<>>,
        <<"p">> :> GoodPlan,
        NoSDK) :
        name \in EntitlementNames,
        roles \in SeqsUpTo({<<"x">>, <<"z">>}, MaxEntRoles),
        plans \in SeqsUpTo({<<"p">>, <<"q">>}, MaxEntPlans),
        extra \in {{}, {<<>>}}}

\* one inheritance token of up to MaxTokenLen characters under role x of the
\* resource o, whose only role is x
TokenConfigs ==
    {BlimuConfig(
        <<"o">> :> ResourceConfig(<<<<"x">>>>, <<"x">> :> <<token>>, <<>>),
        <<>>, <<>>, <<>>, NoSDK) :
        token \in SeqsUpTo({"o", "x", "-", ">", " "}, MaxTokenLen)}

\* inheritance maps of the resource o over the keys x (a role of o) and z (none),
\* each listing up to MaxTokens of: o->x, o-x, g->x, o->z
SampleTokens ==
    {<<"o", "-", ">", "x">>, <<"o", "-", "x">>, <<"g", "-", ">", "x">>,
     <<"o", "-", ">", "z">>}
InheritanceConfigs ==
    {BlimuConfig(
        <<"o">> :> ResourceConfig(<<<<"x">>>>, inh, <<>>),
        <<>>, <<>>, <<>>, NoSDK) :
        inh \in UNION {[K -> SeqsUpTo(SampleTokens, MaxTokens)] :
                          K \in SUBSET {<<"x">>, <<"z">>}}}

SDKClient(type, outDir, packageName, moduleName, name) ==
    [Type |-> type, OutDir |-> outDir, PackageName |-> packageName,
     ModuleName |-> moduleName, Name |-> name]

SampleClients ==
    {SDKClient(S_typescript, <<"d">>, <<"k">>, <<>>, <<"n">>),
     SDKClient(S_go, <<"e">>, <<"k">>, <<"m">>, <<"n">>),
     SDKClient(S_go, <<"d">>, <<"k">>, <<>>, <<"n">>),
     SDKClient(<<>>, <<>>, <<>>, <<>>, <<>>),
     SDKClient(<<"p", "y">>, <<" ">>, <<"k">>, <<>>, <<" ">>),
     SDKClient(S_typescript, <<"e">>, <<>>, <<>>, <<"n">>)}

\* an SDK section of up to MaxClients clients beside one valid resource
SDKConfigs ==
    {BlimuConfig(
        <<"o">> :> ResourceConfig(<<<<"x">>>>, <<>>, <<>>),
        <<>>, <<>>, <<>>, SDK(clients)) :
        clients \in SeqsUpTo(SampleClients, MaxClients)}

\* every section filled at once, valid and invalid entries side by side; some
\* entries bear the names the validator itself writes into Resource and Field
EntOA == <<"o", ":", "a">>
MixedConfigs ==
    {BlimuConfig(resources, entitlements, features, plans, sdk) :
        resources \in
            {(<<"o">> :> ResourceConfig(r1, <<>>, <<>>)) @@ more :
                r1 \in {<<>>, <<<<"x">>>>},
                more \in {<<>>} \cup
                    {S_plans :> ResourceConfig(r2, <<>>, par) :
                        r2 \in {<<>>, <<<<"x">>>>},
                        par \in {<<>>, ParentsOf({<<"o">>})}}},
        entitlements \in
            {<<>>,
             EntOA :> [Roles |-> <<<<"x">>>>, Plans |-> <<<<"p">>>>],
             (EntOA :> [Roles |-> <<<<"x">>>>, Plans |-> <<>>])
                @@ (S_roles :> [Roles |-> <<>>, Plans |-> <<>>])},
        features \in
            {<<>>,
             <<"f">> :> [Plans |-> <<<<"p">>>>, DefaultEnabled |-> TRUE,
                         Entitlements |-> <<EntOA>>],
             S_roles :> [Plans |-> <<>>, DefaultEnabled |-> FALSE,
                         Entitlements |-> <<>>]},
        plans \in
            {<<>>,
             <<"p">> :> GoodPlan,
             (<<"p">> :> GoodPlan)
                @@ (S_roles :> [Name |-> <<>>, Description |-> <<" ">>])},
        sdk \in {NoSDK, SDK(<<>>),
                 SDK(<<SDKClient(S_typescript, <<"d">>, <<"k">>, <<>>, <<"n">>)>>)}}

\* resources organization (admin, editor) and workspace (admin, parent
\* organization), entitlement organization:invite, with role admin or owner
S_organization == <<"o", "r", "g", "a", "n", "i", "z", "a", "t", "i", "o", "n">>
S_workspace == <<"w", "o", "r", "k", "s", "p", "a", "c", "e">>
S_admin == <<"a", "d", "m", "i", "n">>
S_editor == <<"e", "d", "i", "t", "o", "r">>
S_owner == <<"o", "w", "n", "e", "r">>
S_organization_invite == S_organization \o <<":", "i", "n", "v", "i", "t", "e">>
ScenarioConfigs ==
    {BlimuConfig(
        (S_organization :> ResourceConfig(<<S_admin, S_editor>>, <<>>, <<>>))
        @@ (S_workspace :> ResourceConfig(<<S_admin>>, <<>>,
                                          ParentsOf({S_organization}))),
        S_organization_invite :> [Roles |-> roles, Plans |-> <<>>],
        <<>>, <<>>, NoSDK) :
        roles \in {<<S_admin>>, <<S_owner>>, <<S_admin, S_owner>>}}

----------------------------------------------------------------------------

\* the families are tried one after the other: their union is never built
IsConfig(cfg) ==
    \/ cfg \in GraphConfigs
    \/ cfg \in RingConfigs
    \/ cfg \in DiamondConfigs
    \/ cfg \in EntitlementConfigs
    \/ cfg \in TokenConfigs
    \/ cfg \in InheritanceConfigs
    \/ cfg \in SDKConfigs
    \/ cfg \in MixedConfigs
    \/ cfg \in ScenarioConfigs

\* ValidateConfig not called
ValidatorIdle ==
    /\ pc = "idle"
    /\ todo = {}
    /\ errors = <<>>
    /\ valid = TRUE
    /\ first = NoResult

\* no directory read
LoadIdle ==
    /\ files = <<>>
    /\ nilMaps = {}
    /\ loadResult = <<>>

\* no command run
CLIIdle ==
    /\ command = <<>>
    /\ cpc = "idle"
    /\ clientAt = 0
    /\ calls = <<>>
    /\ exitCode = -1
    /\ payload = <<>>

\* no OpenAPI document held
MergeIdle ==
    /\ heap = <<>>
    /\ heapAtCall = <<>>
    /\ mergedSpec = 0
    /\ heapAtFetch = <<>>

\* no call of hasCircularDependency traced
CycleIdle ==
    /\ stack = <<>>
    /\ visitedMap = {}
    /\ cycleTarget = <<>>
    /\ returned = "none"

\* SaveBlimuConfig not called
SaveIdle ==
    /\ saved = <<>>
    /\ saveResult = "none"

\* no CLI configuration loaded, none on disk
EnvIdle ==
    /\ cliConfig = <<>>
    /\ stored = <<>>
    /\ envResult = "none"

\* no callback server
OAuthIdle ==
    /\ codeChan = <<>>
    /\ handlers = <<>>
    /\ ctxDone = FALSE
    /\ delivered = <<>>
    /\ accepted = <<>>

OthersIdle == CycleIdle /\ SaveIdle /\ EnvIdle /\ OAuthIdle

\* ValidateConfig called on a configuration of one of the families
Init ==
    /\ IsConfig(config)
    /\ pc = "resources"
    /\ todo = DOMAIN config.Resources
    /\ errors = <<>>
    /\ valid = TRUE
    /\ first = NoResult
    /\ LoadIdle
    /\ CLIIdle
    /\ MergeIdle
    /\ OthersIdle

Spec == Init /\ [][Next]_vars

----------------------------------------------------------------------------
(* What the specification says of a configuration, stated without the      *)
(* validator's own operators.                                              *)

Done == pc = "done"

\* how many entries of the returned error list equal e
Count(errs, e) == Cardinality({i \in 1..Len(errs) : errs[i] = e})

RECURSIVE SumOver(_, _)
\* the sum of the bags f[k], k in K
SumOver(f, K) ==
    IF K = {} THEN EmptyBag
    ELSE LET k == CHOOSE x \in K : TRUE IN f[k] (+) SumOver(f, K \ {k})

\* the parents edges out of the set S of names: only a resource has any
ParentsStep(cfg, S) ==
    S \cup UNION {DOMAIN cfg.Resources[u].Parents : u \in S \cap DOMAIN cfg.Resources}

RECURSIVE ParentsClosure(_, _)
ParentsClosure(cfg, S) ==
    LET T == ParentsStep(cfg, S) IN IF T = S THEN S ELSE ParentsClosure(cfg, T)

\* the names reached from u by one or more parents edges
Ancestors(cfg, u) ==
    IF u \in DOMAIN cfg.Resources
    THEN ParentsClosure(cfg, DOMAIN cfg.Resources[u].Parents)
    ELSE {}

HasCycle(cfg) == \E u \in DOMAIN cfg.Resources : u \in Ancestors(cfg, u)

CycleError(r, p) ==
    ValidationError(r, S_parents,
        <<"circular dependency detected with parent '">> \o p \o <<"'">>)

IsCycleError(e) ==
    /\ e.Field = S_parents
    /\ Head(e.Message) = "circular dependency detected with parent '"

\* the places where sep occurs in s
Positions(s, sep) ==
    {i \in 1..(Len(s) - Len(sep) + 1) : SubSeq(s, i, i + Len(sep) - 1) = sep}

Whitespace == {" ", "\t", "\n", "\r"}

\* s without its leading and trailing whitespace
Stripped(s) ==
    LET ns == {i \in 1..Len(s) : s[i] \notin Whitespace} IN
    IF ns = {} THEN <<>>
    ELSE SubSeq(s, CHOOSE i \in ns : \A j \in ns : i <= j,
                   CHOOSE i \in ns : \A j \in ns : i >= j)

Blank(s) == \A i \in 1..Len(s) : s[i] \in Whitespace

Members(list) == {list[i] : i \in 1..Len(list)}

\* "ok", or the kind of failure of an inheritance token
TokenKind(cfg, token) ==
    LET at == Positions(token, <<"-", ">">>) IN
    IF Cardinality(at) # 1 THEN "format"
    ELSE
        LET i == CHOOSE j \in at : TRUE
            left == Stripped(SubSeq(token, 1, i - 1))
            right == Stripped(SubSeq(token, i + 2, Len(token)))
        IN  IF left \notin DOMAIN cfg.Resources THEN "resource"
            ELSE IF right \notin Members(cfg.Resources[left].Roles) THEN "role"
            ELSE "ok"

\* an entitlement name of two non-empty components around one colon
WellFormedName(name) ==
    /\ Cardinality(Positions(name, <<":">>)) = 1
    /\ name[1] # ":"
    /\ name[Len(name)] # ":"

\* the resource component of a name that holds one colon
ResourcePart(name) == SubSeq(name, 1, (CHOOSE i \in Positions(name, <<":">>) : TRUE) - 1)

\* rule a) for the resource r
ResourceRulesOK(cfg, r) ==
    LET res == cfg.Resources[r] IN
    /\ res.Roles # <<>>
    /\ \A k \in DOMAIN res.RolesInheritance :
        /\ k \in Members(res.Roles)
        /\ \A t \in Members(res.RolesInheritance[k]) : TokenKind(cfg, t) = "ok"
    /\ \A p \in DOMAIN res.Parents :
        /\ p \in DOMAIN cfg.Resources
        /\ r \notin Ancestors(cfg, p)

\* rule b) for the entitlement n
EntitlementRulesOK(cfg, n) ==
    /\ WellFormedName(n)
    /\ ResourcePart(n) \in DOMAIN cfg.Resources
    /\ Members(cfg.Entitlements[n].Roles)
        \subseteq Members(cfg.Resources[ResourcePart(n)].Roles)
    /\ Members(cfg.Entitlements[n].Plans) \subseteq DOMAIN cfg.Plans

\* rule c) for the feature f
FeatureRulesOK(cfg, f) ==
    /\ Members(cfg.Features[f].Plans) \subseteq DOMAIN cfg.Plans
    /\ Members(cfg.Features[f].Entitlements) \subseteq DOMAIN cfg.Entitlements

\* rule d) for the plan p
PlanRulesOK(cfg, p) ==
    /\ ~Blank(cfg.Plans[p].Name)
    /\ ~Blank(cfg.Plans[p].Description)

\* rule e); a field of nothing but whitespace counts as empty
SDKRulesOK(cfg) ==
    \/ cfg.SDKConfig.isNil
    \/ LET cs == cfg.SDKConfig.Clients IN
       /\ cs # <<>>
       /\ \A i \in 1..Len(cs) :
            /\ cs[i].Type \in {S_typescript, S_go}
            /\ ~Blank(cs[i].OutDir)
            /\ ~Blank(cs[i].PackageName)
            /\ ~Blank(cs[i].Name)
            /\ cs[i].Type = S_go => ~Blank(cs[i].ModuleName)
       /\ \A i, j \in 1..Len(cs) : i # j => cs[i].OutDir # cs[j].OutDir

RulesOK(cfg) ==
    /\ \A r \in DOMAIN cfg.Resources : ResourceRulesOK(cfg, r)
    /\ \A n \in DOMAIN cfg.Entitlements : EntitlementRulesOK(cfg, n)
    /\ \A f \in DOMAIN cfg.Features : FeatureRulesOK(cfg, f)
    /\ \A p \in DOMAIN cfg.Plans : PlanRulesOK(cfg, p)
    /\ SDKRulesOK(cfg)

----------------------------------------------------------------------------
(* Claims *)

\* C1: for every resource R and every key P of R.parents, the returned list
\* holds the error 'circular dependency detected with parent P' of resource R,
\* field "parents", if and only if R is reached from P by one or more parents
\* edges.
C1_CycleErrorIffReachable ==
    Done =>
        \A r \in DOMAIN config.Resources :
            \A p \in DOMAIN config.Resources[r].Parents :
                (Count(errors, CycleError(r, p)) >= 1) <=> (r \in Ancestors(config, p))

\* a cycle of three or more resources was reported at one of its entries
C1_Witness ==
    /\ Done
    /\ \E r \in DOMAIN config.Resources :
        \E p \in DOMAIN config.Resources[r].Parents :
            /\ p # r
            /\ p \in DOMAIN config.Resources
            /\ r \notin DOMAIN config.Resources[p].Parents
            /\ Count(errors, CycleError(r, p)) = 1

\* C2: the returned list holds a circular-dependency error if and only if the
\* parents graph has a directed cycle, and a valid result means an acyclic graph.
C2_CycleErrorIffCyclic ==
    Done =>
        /\ (\E i \in 1..Len(errors) : IsCycleError(errors[i])) <=> HasCycle(config)
        /\ valid => ~HasCycle(config)

\* an acyclic diamond (p has parents u and v, both have parent w) was validated
\* without any error
C2_Witness ==
    /\ Done
    /\ valid
    /\ ~HasCycle(config)
    /\ \E p, u, v, w \in DOMAIN config.Resources :
        /\ u # v
        /\ {u, v} \subseteq DOMAIN config.Resources[p].Parents
        /\ w \in DOMAIN config.Resources[u].Parents
        /\ w \in DOMAIN config.Resources[v].Parents

\* C3: in the returned result, Valid is true if and only if Errors is empty.
C3_ValidIffNoErrors == Done => (valid <=> errors = <<>>)

\* a result with errors came back not valid
C3_Witness == Done /\ errors # <<>> /\ ~valid

\* C4: the returned errors are, as a multiset, the sum of the errors of every
\* resource, entitlement, feature and plan checked on its own and of the SDK
\* section: no entry's error suppresses another's.
C4_AllViolationsCollected ==
    Done =>
        BagOfSeq(errors) =
            SumOver([r \in DOMAIN config.Resources |->
                        BagOfSeq(validateResource(r, config.Resources[r], config.Resources,
                            CHOOSE o \in Orders(DOMAIN config.Resources[r].RolesInheritance) : TRUE,
                            CHOOSE o \in Orders(DOMAIN config.Resources[r].Parents) : TRUE))],
                    DOMAIN config.Resources)
            (+) SumOver([n \in DOMAIN config.Entitlements |->
                        BagOfSeq(validateEntitlement(n, config.Entitlements[n], config))],
                    DOMAIN config.Entitlements)
            (+) SumOver([f \in DOMAIN config.Features |->
                        BagOfSeq(validateFeature(f, config.Features[f], config))],
                    DOMAIN config.Features)
            (+) SumOver([p \in DOMAIN config.Plans |->
                        BagOfSeq(validatePlan(p, config.Plans[p]))],
                    DOMAIN config.Plans)
            (+) (IF config.SDKConfig.isNil THEN EmptyBag
                 ELSE BagOfSeq(validateSDKConfig(config.SDKConfig)))

\* errors of a resource, of a plan and of the SDK section came back together
C4_Witness ==
    /\ Done
    /\ \E i, j, k \in 1..Len(errors) :
        /\ errors[i].Message = <<"at least one role must be defined">>
        /\ errors[j].Message = <<"plan must have a name">>
        /\ errors[k].Message = <<"at least one client must be defined">>

RolesError(r) == ValidationError(r, S_roles, <<"at least one role must be defined">>)

\* the places of the returned list holding an error with this Resource and Field
ErrorsAt(errs, resource, field) ==
    {i \in 1..Len(errs) : errs[i].Resource = resource /\ errs[i].Field = field}

\* C6 as stated: a resource with an empty roles list has exactly one error with
\* Resource = its name and Field = "roles", whatever else the configuration holds.
C6_ExactlyOneRolesFieldError ==
    Done =>
        \A r \in DOMAIN config.Resources :
            config.Resources[r].Roles = <<>> =>
                Cardinality(ErrorsAt(errors, r, S_roles)) = 1

\* C6, amended: a resource with an empty roles list has exactly one error with
\* Resource = its name, Field = "roles" and the message 'at least one role must
\* be defined'; it is the only error with that Resource and Field unless the
\* resource bears the name of a section (entitlements, features, plans), whose
\* entry named "roles" reports its own errors under the same Resource and Field.
C6_ExactlyOneRolesError ==
    Done =>
        \A r \in DOMAIN config.Resources :
            config.Resources[r].Roles = <<>> =>
                /\ Count(errors, RolesError(r)) = 1
                /\ r \notin {S_entitlements, S_features, S_plans} =>
                        Cardinality(ErrorsAt(errors, r, S_roles)) = 1

\* the resource named plans has no role, beside a plan named roles and a
\* second resource
C6_Witness ==
    /\ Done
    /\ S_plans \in DOMAIN config.Resources
    /\ config.Resources[S_plans].Roles = <<>>
    /\ S_roles \in DOMAIN config.Plans
    /\ Cardinality(DOMAIN config.Resources) > 1
    /\ Count(errors, RolesError(S_plans)) = 1

FormatMessage == <<"entitlement name must be in format 'resource:action'">>

\* C7 as stated: an entitlement whose name is not two non-empty components
\* around one colon has exactly one error, the format error; one whose name is
\* has no format error.
C7_FormatErrorIffMalformed ==
    Done =>
        \A n \in DOMAIN config.Entitlements :
            LET mine == ErrorsAt(errors, S_entitlements, n) IN
            IF ~WellFormedName(n)
            THEN /\ Cardinality(mine) = 1
                 /\ \A i \in mine : errors[i].Message = FormatMessage
            ELSE \A i \in mine : errors[i].Message # FormatMessage

OneColon(name) == Cardinality(Positions(name, <<":">>)) = 1

RoleError(n, role, r) ==
    ValidationError(S_entitlements, n,
        <<"role '">> \o role \o <<"' not found in resource '">> \o r \o <<"'">>)

\* the places holding an error of the entitlement n whose message starts so
EntitlementErrors(errs, n, start) ==
    {i \in ErrorsAt(errs, S_entitlements, n) : Head(errs[i].Message) = start}

RemoveAt(list, i) == SubSeq(list, 1, i - 1) \o SubSeq(list, i + 1, Len(list))

\* C8: an entitlement r:a whose resource r exists has exactly one error per
\* entry of its roles list that is no role of r, citing the entitlement, the
\* role and r; and a configuration that is valid but for one such entry has
\* exactly one error in all.
C8_OneErrorPerMissingRole ==
    Done =>
        \A n \in DOMAIN config.Entitlements :
            (OneColon(n) /\ ResourcePart(n) \in DOMAIN config.Resources) =>
                LET r == ResourcePart(n)
                    roles == config.Entitlements[n].Roles
                    missing == {i \in 1..Len(roles) :
                                   roles[i] \notin Members(config.Resources[r].Roles)}
                IN  /\ Cardinality(EntitlementErrors(errors, n, "role '"))
                            = Cardinality(missing)
                    /\ \A i \in missing :
                            Count(errors, RoleError(n, roles[i], r))
                                = Cardinality({k \in missing : roles[k] = roles[i]})
                    /\ \A i \in missing :
                            RulesOK([config EXCEPT
                                        !.Entitlements[n].Roles = RemoveAt(@, i)])
                                => Len(errors) = 1

\* organization:invite gated on admin and owner: one error, for owner
C8_Witness ==
    /\ Done
    /\ S_organization_invite \in DOMAIN config.Entitlements
    /\ config.Entitlements[S_organization_invite].Roles = <<S_admin, S_owner>>
    /\ errors = <<RoleError(S_organization_invite, S_owner, S_organization)>>

NotFoundError(n, r) ==
    ValidationError(S_entitlements, n,
        <<"resource '">> \o r \o <<"' not found in resources.yml">>)

PlanError(n, plan) ==
    ValidationError(S_entitlements, n,
        <<"plan '">> \o plan \o <<"' not found in plans.yml">>)

\* C9: an entitlement r:a whose resource r does not exist has exactly one
\* 'resource not found' error, no role error whatever its roles list holds, and
\* one error for each entry of its plans list that is no plan.
C9_AbsentResource ==
    Done =>
        \A n \in DOMAIN config.Entitlements :
            (OneColon(n) /\ ResourcePart(n) \notin DOMAIN config.Resources) =>
                LET plans == config.Entitlements[n].Plans
                    missing == {i \in 1..Len(plans) : plans[i] \notin DOMAIN config.Plans}
                IN  /\ Count(errors, NotFoundError(n, ResourcePart(n))) = 1
                    /\ Cardinality(EntitlementErrors(errors, n, "resource '")) = 1
                    /\ EntitlementErrors(errors, n, "role '") = {}
                    /\ Cardinality(EntitlementErrors(errors, n, "plan '"))
                            = Cardinality(missing)
                    /\ \A i \in missing :
                            Count(errors, PlanError(n, plans[i]))
                                = Cardinality({k \in missing : plans[k] = plans[i]})

\* an entitlement of an absent resource, with roles and a plan that is none,
\* came back with the not-found error and the plan error only
C9_Witness ==
    /\ Done
    /\ \E n \in DOMAIN config.Entitlements :
        /\ WellFormedName(n)
        /\ ResourcePart(n) \notin DOMAIN config.Resources
        /\ config.Entitlements[n].Roles # <<>>
        /\ \E i \in 1..Len(config.Entitlements[n].Plans) :
                config.Entitlements[n].Plans[i] \notin DOMAIN config.Plans
        /\ Len(errors) = 2

\* the error the specification asks for a token that is not "ok"
TokenError(cfg, r, token) ==
    LET i == CHOOSE j \in Positions(token, <<"-", ">">>) : TRUE
        left == Stripped(SubSeq(token, 1, i - 1))
        right == Stripped(SubSeq(token, i + 2, Len(token)))
        kind == TokenKind(cfg, token)
    IN  ValidationError(r, S_roles_inheritance,
            <<"invalid inheritance '">> \o token \o <<"': ">>
            \o (CASE kind = "format" ->
                        <<"inheritance must be in format 'resource->role'">>
                  [] kind = "resource" -> <<"resource '">> \o left \o <<"' not found">>
                  [] kind = "role" ->
                        <<"role '">> \o right \o <<"' not found in resource '">>
                        \o left \o <<"'">>))

\* the error e is an 'invalid inheritance' error citing the token
CitesToken(e, token) ==
    /\ e.Field = S_roles_inheritance
    /\ Len(e.Message) >= Len(token) + 2
    /\ e.Message[1] = "invalid inheritance '"
    /\ SubSeq(e.Message, 2, Len(token) + 1) = token
    /\ e.Message[Len(token) + 2] = "': "

\* C10: an inheritance token has no error if and only if it holds exactly one
\* "->" and, both sides trimmed, the left names a resource and the right one of
\* its roles; otherwise each of its occurrences has one error on field
\* "roles_inheritance" citing it: format, resource not found, or role not found.
C10_InheritanceToken ==
    Done =>
        \A r \in DOMAIN config.Resources :
            LET inh == config.Resources[r].RolesInheritance IN
            \A k \in DOMAIN inh :
                \A t \in Members(inh[k]) :
                    LET occurrences ==
                            UNION {{<<k2, i>> : i \in {j \in 1..Len(inh[k2]) :
                                                          inh[k2][j] = t}} :
                                      k2 \in DOMAIN inh}
                        cites == {j \in 1..Len(errors) :
                                    errors[j].Resource = r /\ CitesToken(errors[j], t)}
                    IN  IF TokenKind(config, t) = "ok"
                        THEN cites = {}
                        ELSE /\ Cardinality(cites) = Cardinality(occurrences)
                             /\ \A j \in cites : errors[j] = TokenError(config, r, t)

\* a token with whitespace before its resource or after its role passed
C10_Witness ==
    /\ Done
    /\ errors = <<>>
    /\ \E r \in DOMAIN config.Resources :
        \E k \in DOMAIN config.Resources[r].RolesInheritance :
            \E t \in Members(config.Resources[r].RolesInheritance[k]) :
                /\ Len(t) > 0
                /\ Head(t) = " " \/ t[Len(t)] = " "

----------------------------------------------------------------------------
\* the error the specification asks for when the client at index i repeats the
\* output directory of the client at index j
DuplicateError(clients, i, j) ==
    ValidationError(S_config,
        <<"c", "l", "i", "e", "n", "t", "s", "[">> \o Itoa(i)
            \o <<"]", ".", "o", "u", "t", "D", "i", "r">>,
        <<"output directory '">> \o clients[i + 1].OutDir
            \o <<"' is already used by clients[">> \o Itoa(j) \o <<"]">>)

\* the errors of the list that report a repeated output directory
DuplicateErrors(errs) ==
    {k \in 1..Len(errs) : /\ Len(errs[k].Message) > 0
                          /\ errs[k].Message[1] = "output directory '"}

\* the indices, counted from 0, of the earlier clients with the output
\* directory of the client at index i
EarlierHolders(clients, i) ==
    {j \in 0..(i - 1) : clients[j + 1].OutDir = clients[i + 1].OutDir}

Min(S) == CHOOSE m \in S : \A n \in S : m <= n

\* C20: a client whose non-empty outDir equals that of an earlier client has
\* exactly one duplicate error, on field clients[i].outDir, citing the index
\* of the earliest client with that outDir; every other client has none.
C20_DuplicateOutDir ==
    (Done /\ ~config.SDKConfig.isNil) =>
        LET clients == config.SDKConfig.Clients
            dups == DuplicateErrors(errors)
            at(i) == {k \in dups : errors[k].Field = DuplicateError(clients, i, 0).Field}
        IN  /\ \A k \in dups : \E i \in 0..(Len(clients) - 1) : k \in at(i)
            /\ \A i \in 0..(Len(clients) - 1) :
                   IF clients[i + 1].OutDir # <<>> /\ EarlierHolders(clients, i) # {}
                   THEN /\ Cardinality(at(i)) = 1
                        /\ \A k \in at(i) :
                              errors[k] = DuplicateError(clients, i,
                                              Min(EarlierHolders(clients, i)))
                   ELSE at(i) = {}

\* three clients share an output directory: the third has two earlier holders
C20_Witness ==
    /\ Done
    /\ ~config.SDKConfig.isNil
    /\ Len(config.SDKConfig.Clients) = 3
    /\ config.SDKConfig.Clients[1].OutDir # <<>>
    /\ EarlierHolders(config.SDKConfig.Clients, 2) = {0, 1}
    /\ Cardinality(DuplicateErrors(errors)) = 2

----------------------------------------------------------------------------
\* C11: two calls of ValidateConfig on the same configuration return the same
\* valid flag and the same errors as a multiset, whatever order the maps are
\* ranged over in either call; and no step of ValidateConfig changes the
\* configuration.
C11_Deterministic ==
    /\ []((Done /\ first.called) =>
            /\ valid = first.Valid
            /\ BagOfSeq(errors) = first.Errors)
    /\ [][config' = config]_vars

\* a second call has returned several errors found in two different resources
C11_Witness ==
    /\ Done
    /\ first.called
    /\ Len(errors) >= 2
    /\ \E i, j \in 1..Len(errors) : errors[i].Resource # errors[j].Resource
    /\ Cardinality(DOMAIN config.Resources) >= 2

----------------------------------------------------------------------------
\* the error the specification asks for a key of rolesInheritance that is no
\* role of the resource r
KeyError(r, key) ==
    ValidationError(r, S_roles_inheritance,
        <<"role '">> \o key \o <<"' not found in roles list">>)

\* the errors the specification asks for the tokens of one list, in its order
TokenErrors(cfg, r, list) ==
    LET bad == SelectSeq(list, LAMBDA t : TokenKind(cfg, t) # "ok")
    IN  [i \in 1..Len(bad) |-> TokenError(cfg, r, bad[i])]

\* C22: each key of a resource's rolesInheritance that is not one of its roles
\* has exactly one error on field "roles_inheritance" naming it, a key that is
\* a role has none, and the tokens listed under a key that is no role are
\* validated all the same: their errors follow the key's error in the list.
C22_UnknownInheritanceKey ==
    Done =>
        \A r \in DOMAIN config.Resources :
            LET resource == config.Resources[r]
                inh == resource.RolesInheritance
            IN  \A key \in DOMAIN inh :
                    IF key \in Members(resource.Roles)
                    THEN Count(errors, KeyError(r, key)) = 0
                    ELSE LET found == TokenErrors(config, r, inh[key]) IN
                         /\ Count(errors, KeyError(r, key)) = 1
                         /\ \E i \in 1..Len(errors) :
                                /\ errors[i] = KeyError(r, key)
                                /\ i + Len(found) <= Len(errors)
                                /\ SubSeq(errors, i + 1, i + Len(found)) = found

\* a key that is no role lists a token that fails and one that passes
C22_Witness ==
    /\ Done
    /\ \E r \in DOMAIN config.Resources :
        LET resource == config.Resources[r] IN
        \E key \in DOMAIN resource.RolesInheritance :
            /\ key \notin Members(resource.Roles)
            /\ \E t, u \in Members(resource.RolesInheritance[key]) :
                /\ TokenKind(config, t) = "ok"
                /\ TokenKind(config, u) # "ok"
            /\ Count(errors, KeyError(r, key)) = 1

----------------------------------------------------------------------------
\* the error the specification asks for a parents key that names no resource
ParentNotFoundError(r, p) ==
    ValidationError(r, S_parents,
        <<"parent resource '">> \o p \o <<"' not found">>)

\* the errors returned for the entry p of the parents map of r
ParentEntryErrors(errs, r, p) ==
    {i \in 1..Len(errs) : errs[i] \in {ParentNotFoundError(r, p), CycleError(r, p)}}

\* C23: a parents key that names no resource has exactly one error for its
\* entry, the 'parent resource not found' error on field "parents", and no
\* circular-dependency error; a parents key that names a resource never has
\* the not-found error.
C23_ParentNotFound ==
    Done =>
        \A r \in DOMAIN config.Resources :
            \A p \in DOMAIN config.Resources[r].Parents :
                IF p \notin DOMAIN config.Resources
                THEN /\ Cardinality(ParentEntryErrors(errors, r, p)) = 1
                     /\ Count(errors, ParentNotFoundError(r, p)) = 1
                     /\ Count(errors, CycleError(r, p)) = 0
                ELSE Count(errors, ParentNotFoundError(r, p)) = 0

\* a resource on a cycle also has a parent that names no resource: the cycle is
\* reported at one entry and the missing parent at the other
C23_Witness ==
    /\ Done
    /\ \E r \in DOMAIN config.Resources :
        \E p, q \in DOMAIN config.Resources[r].Parents :
            /\ p \notin DOMAIN config.Resources
            /\ Count(errors, ParentNotFoundError(r, p)) = 1
            /\ q \in DOMAIN config.Resources
            /\ Count(errors, CycleError(r, q)) = 1

----------------------------------------------------------------------------
(* hasCircularDependency (lines 138-164) step by step, as validateResource  *)
(* calls it at line 104: the calls in progress form a stack and share one   *)
(* visited map.                                                             *)

\* a call of hasCircularDependency: its argument current, the keys of
\* resource.Parents its range has not yielded yet, and where it stands
Frame(current, rest, at) == [current |-> current, rest |-> rest, at |-> at]

Answer(b) == IF b THEN "true" ELSE "false"

\* the innermost call returns b to its caller
ReturnFrom(b) ==
    /\ stack' = SubSeq(stack, 1, Len(stack) - 1)
    /\ returned' = Answer(b)

\* line 104: hasCircularDependency(parentName, name, allResources, map[string]bool{})
validateResource_call ==
    /\ stack = <<>>
    /\ returned = "none"
    /\ \E name \in DOMAIN config.Resources :
        \E parentName \in DOMAIN config.Resources[name].Parents :
            /\ cycleTarget' = name
            /\ stack' = <<Frame(parentName, {}, "entry")>>
    /\ visitedMap' = {}
    /\ UNCHANGED <<config, pc, todo, errors, valid, first, loadVars, cliVars,
                   mergeVars, besideCycle, returned>>

\* lines 139-149
hasCircularDependency_enter ==
    /\ stack # <<>>
    /\ LET frame == stack[Len(stack)]
           current == frame.current
       IN  /\ frame.at = "entry"
           /\ IF current \in visitedMap
              THEN /\ ReturnFrom(current = cycleTarget)
                   /\ UNCHANGED visitedMap
              ELSE IF current \notin DOMAIN config.Resources
              THEN \* visited[current] = true, then delete(visited, current)
                   /\ ReturnFrom(FALSE)
                   /\ UNCHANGED visitedMap
              ELSE /\ visitedMap' = visitedMap \cup {current}
                   /\ stack' = [stack EXCEPT ![Len(stack)] =
                                   Frame(current,
                                         DOMAIN config.Resources[current].Parents,
                                         "range")]
                   /\ UNCHANGED returned
    /\ UNCHANGED <<config, pc, todo, errors, valid, first, loadVars, cliVars,
                   mergeVars, besideCycle, cycleTarget>>

\* lines 151-163: the range yields its next key, or is over
hasCircularDependency_range ==
    /\ stack # <<>>
    /\ LET frame == stack[Len(stack)] IN
       /\ frame.at = "range"
       /\ IF frame.rest = {}
          THEN /\ visitedMap' = visitedMap \ {frame.current}
               /\ ReturnFrom(FALSE)
          ELSE \E parentName \in frame.rest :
                IF parentName = cycleTarget
                THEN /\ visitedMap' = visitedMap \ {frame.current}
                     /\ ReturnFrom(TRUE)
                ELSE /\ stack' = [stack EXCEPT ![Len(stack)] =
                                     Frame(frame.current, frame.rest \ {parentName},
                                           "called")]
                                 \o <<Frame(parentName, {}, "entry")>>
                     /\ returned' = "none"
                     /\ UNCHANGED visitedMap
    /\ UNCHANGED <<config, pc, todo, errors, valid, first, loadVars, cliVars,
                   mergeVars, besideCycle, cycleTarget>>

\* the recursive call of line 156 returning true without the delete of line 157
hasCircularDependency_returned_noDelete ==
    /\ stack # <<>>
    /\ LET frame == stack[Len(stack)] IN
       /\ frame.at = "called"
       /\ returned # "none"
       /\ IF returned = "true"
          THEN /\ UNCHANGED visitedMap
               /\ ReturnFrom(TRUE)
          ELSE /\ stack' = [stack EXCEPT ![Len(stack)].at = "range"]
               /\ UNCHANGED <<visitedMap, returned>>
    /\ UNCHANGED <<config, pc, todo, errors, valid, first, loadVars, cliVars,
                   mergeVars, besideCycle, cycleTarget>>

\* lines 156-159: the recursive call has returned
hasCircularDependency_returned ==
    /\ stack # <<>>
    /\ LET frame == stack[Len(stack)] IN
       /\ frame.at = "called"
       /\ returned # "none"
       /\ IF returned = "true"
          THEN /\ visitedMap' = visitedMap \ {frame.current}
               /\ ReturnFrom(TRUE)
          ELSE /\ stack' = [stack EXCEPT ![Len(stack)].at = "range"]
               /\ UNCHANGED <<visitedMap, returned>>
    /\ UNCHANGED <<config, pc, todo, errors, valid, first, loadVars, cliVars,
                   mergeVars, besideCycle, cycleTarget>>

CycleNext ==
    \/ validateResource_call
    \/ hasCircularDependency_enter
    \/ hasCircularDependency_range
    \/ hasCircularDependency_returned

\* the parents graphs among the configurations validated
IsGraph(cfg) ==
    \/ cfg \in GraphConfigs
    \/ cfg \in RingConfigs
    \/ cfg \in DiamondConfigs

CycleInit ==
    /\ IsGraph(config)
    /\ ValidatorIdle
    /\ LoadIdle
    /\ CLIIdle
    /\ MergeIdle
    /\ OthersIdle

\* a function call goes on until it returns: every step that can be taken is
CycleSpec == CycleInit /\ [][CycleNext]_vars /\ WF_vars(CycleNext)

\* the call validateResource made has returned
TopLevelReturned == stack = <<>> /\ returned # "none"

\* C24: the cycle check terminates on every finite resources map and every
\* (parent, target) pair validateResource passes, whatever cycles, self-loops
\* and unknown parent names the graph holds; the visited map is empty again
\* when the top-level call returns, and the calls in progress never number
\* more than the resources plus one.
C24_CycleCheckTerminates ==
    /\ (stack # <<>>) ~> TopLevelReturned
    /\ [](TopLevelReturned => visitedMap = {})
    /\ [](Len(stack) <= Cardinality(DOMAIN config.Resources) + 1)

\* the check answered false on a graph that has a cycle away from the target
\* and a parent name that is no resource
C24_Witness ==
    /\ TopLevelReturned
    /\ returned = "false"
    /\ visitedMap = {}
    /\ HasCycle(config)
    /\ \E r \in DOMAIN config.Resources :
        \E p \in DOMAIN config.Resources[r].Parents : p \notin DOMAIN config.Resources

----------------------------------------------------------------------------
(* LoadBlimuConfig (pkg/config): the five files of the .blimu directory    *)
(* read in turn into a fresh BlimuConfig.  A file is missing, unreadable   *)
(* for another reason, no valid YAML, holds no document (Unmarshal then    *)
(* leaves its target as it was), or holds the document doc.                *)

File(status, doc) == [status |-> status, doc |-> doc]

\* config := &BlimuConfig{}: every map nil, no SDK section
EmptyBlimuConfig == BlimuConfig(<<>>, <<>>, <<>>, <<>>, NoSDK)

Sections == {"resources", "entitlements", "features", "plans"}

\* LoadBlimuConfig has not returned
NotReturned == [returned |-> FALSE, configIsNil |-> TRUE, err |-> <<>>]

\* return nil, err
Failed(err) == [returned |-> TRUE, configIsNil |-> TRUE, err |-> err]

\* return config, nil
Loaded == [returned |-> TRUE, configIsNil |-> FALSE, err |-> <<>>]

\* fmt.Errorf("failed to read <file>: %w", err) of os.ReadFile
ReadError(file, status) ==
    <<"failed to read ", file, ": ",
      IF status = "missing" THEN "no such file or directory" ELSE "permission denied">>

\* fmt.Errorf("failed to parse <file>: %w", err) of yaml.Unmarshal
ParseError(file) == <<"failed to parse ", file, ": ", "yaml: unmarshal error">>

\* lines 81-83 with loadResourcesConfig, lines 108-120
loadResourcesConfig ==
    /\ cpc = "loadResources"
    /\ LET f == files.resources IN
       IF f.status \in {"missing", "unreadable"}
       THEN /\ loadResult' = Failed(ReadError("resources.yml", f.status))
            /\ cpc' = "loadFailed"
            /\ UNCHANGED <<config, nilMaps>>
       ELSE IF f.status = "malformed"
       THEN /\ loadResult' = Failed(ParseError("resources.yml"))
            /\ cpc' = "loadFailed"
            /\ UNCHANGED <<config, nilMaps>>
       ELSE IF f.status = "empty"
       THEN /\ cpc' = "loadEntitlements"
            /\ UNCHANGED <<config, nilMaps, loadResult>>
       ELSE /\ config' = [config EXCEPT !.Resources = f.doc]
            /\ nilMaps' = nilMaps \ {"resources"}
            /\ cpc' = "loadEntitlements"
            /\ UNCHANGED loadResult
    /\ UNCHANGED <<pc, todo, errors, valid, first, others, files, command, clientAt, calls,
                   exitCode,
                   payload, mergeVars>>

\* a missing entitlements.yml refused like a missing resources.yml
loadEntitlementsConfig_required ==
    /\ cpc = "loadEntitlements"
    /\ LET f == files.entitlements IN
       IF f.status \in {"missing", "unreadable"}
       THEN /\ loadResult' = Failed(ReadError("entitlements.yml", f.status))
            /\ cpc' = "loadFailed"
            /\ UNCHANGED <<config, nilMaps>>
       ELSE IF f.status = "malformed"
       THEN /\ loadResult' = Failed(ParseError("entitlements.yml"))
            /\ cpc' = "loadFailed"
            /\ UNCHANGED <<config, nilMaps>>
       ELSE IF f.status = "empty"
       THEN /\ cpc' = "loadFeatures"
            /\ UNCHANGED <<config, nilMaps, loadResult>>
       ELSE /\ config' = [config EXCEPT !.Entitlements = f.doc]
            /\ nilMaps' = nilMaps \ {"entitlements"}
            /\ cpc' = "loadFeatures"
            /\ UNCHANGED loadResult
    /\ UNCHANGED <<pc, todo, errors, valid, first, others, files, command, clientAt, calls,
                   exitCode,
                   payload, mergeVars>>

\* lines 86-88 with loadEntitlementsConfig, lines 122-138
loadEntitlementsConfig ==
    /\ cpc = "loadEntitlements"
    /\ LET f == files.entitlements IN
       IF f.status = "missing"
       THEN /\ config' = [config EXCEPT !.Entitlements = <<>>]
            /\ nilMaps' = nilMaps \ {"entitlements"}
            /\ cpc' = "loadFeatures"
            /\ UNCHANGED loadResult
       ELSE IF f.status = "unreadable"
       THEN /\ loadResult' = Failed(ReadError("entitlements.yml", f.status))
            /\ cpc' = "loadFailed"
            /\ UNCHANGED <<config, nilMaps>>
       ELSE IF f.status = "malformed"
       THEN /\ loadResult' = Failed(ParseError("entitlements.yml"))
            /\ cpc' = "loadFailed"
            /\ UNCHANGED <<config, nilMaps>>
       ELSE IF f.status = "empty"
       THEN /\ cpc' = "loadFeatures"
            /\ UNCHANGED <<config, nilMaps, loadResult>>
       ELSE /\ config' = [config EXCEPT !.Entitlements = f.doc]
            /\ nilMaps' = nilMaps \ {"entitlements"}
            /\ cpc' = "loadFeatures"
            /\ UNCHANGED loadResult
    /\ UNCHANGED <<pc, todo, errors, valid, first, others, files, command, clientAt, calls,
                   exitCode,
                   payload, mergeVars>>

\* lines 91-93 with loadFeaturesConfig, lines 140-156
loadFeaturesConfig ==
    /\ cpc = "loadFeatures"
    /\ LET f == files.features IN
       IF f.status = "missing"
       THEN /\ config' = [config EXCEPT !.Features = <<>>]
            /\ nilMaps' = nilMaps \ {"features"}
            /\ cpc' = "loadPlans"
            /\ UNCHANGED loadResult
       ELSE IF f.status = "unreadable"
       THEN /\ loadResult' = Failed(ReadError("features.yml", f.status))
            /\ cpc' = "loadFailed"
            /\ UNCHANGED <<config, nilMaps>>
       ELSE IF f.status = "malformed"
       THEN /\ loadResult' = Failed(ParseError("features.yml"))
            /\ cpc' = "loadFailed"
            /\ UNCHANGED <<config, nilMaps>>
       ELSE IF f.status = "empty"
       THEN /\ cpc' = "loadPlans"
            /\ UNCHANGED <<config, nilMaps, loadResult>>
       ELSE /\ config' = [config EXCEPT !.Features = f.doc]
            /\ nilMaps' = nilMaps \ {"features"}
            /\ cpc' = "loadPlans"
            /\ UNCHANGED loadResult
    /\ UNCHANGED <<pc, todo, errors, valid, first, others, files, command, clientAt, calls,
                   exitCode,
                   payload, mergeVars>>

\* lines 96-98 with loadPlansConfig, lines 158-174
loadPlansConfig ==
    /\ cpc = "loadPlans"
    /\ LET f == files.plans IN
       IF f.status = "missing"
       THEN /\ config' = [config EXCEPT !.Plans = <<>>]
            /\ nilMaps' = nilMaps \ {"plans"}
            /\ cpc' = "loadSDK"
            /\ UNCHANGED loadResult
       ELSE IF f.status = "unreadable"
       THEN /\ loadResult' = Failed(ReadError("plans.yml", f.status))
            /\ cpc' = "loadFailed"
            /\ UNCHANGED <<config, nilMaps>>
       ELSE IF f.status = "malformed"
       THEN /\ loadResult' = Failed(ParseError("plans.yml"))
            /\ cpc' = "loadFailed"
            /\ UNCHANGED <<config, nilMaps>>
       ELSE IF f.status = "empty"
       THEN /\ cpc' = "loadSDK"
            /\ UNCHANGED <<config, nilMaps, loadResult>>
       ELSE /\ config' = [config EXCEPT !.Plans = f.doc]
            /\ nilMaps' = nilMaps \ {"plans"}
            /\ cpc' = "loadSDK"
            /\ UNCHANGED loadResult
    /\ UNCHANGED <<pc, todo, errors, valid, first, others, files, command, clientAt, calls,
                   exitCode,
                   payload, mergeVars>>

\* lines 101-105 with loadSDKConfig, lines 176-194: a file with no document
\* still yields an SDKConfig, the zero one
loadSDKConfig ==
    /\ cpc = "loadSDK"
    /\ LET f == files.config IN
       IF f.status = "missing"
       THEN /\ loadResult' = Loaded
            /\ cpc' = "loaded"
            /\ UNCHANGED config
       ELSE IF f.status = "unreadable"
       THEN /\ loadResult' = Failed(ReadError("config.yml", f.status))
            /\ cpc' = "loadFailed"
            /\ UNCHANGED config
       ELSE IF f.status = "malformed"
       THEN /\ loadResult' = Failed(ParseError("config.yml"))
            /\ cpc' = "loadFailed"
            /\ UNCHANGED config
       ELSE /\ config' = [config EXCEPT !.SDKConfig =
                            SDK(IF f.status = "empty" THEN <<>> ELSE f.doc)]
            /\ loadResult' = Loaded
            /\ cpc' = "loaded"
    /\ UNCHANGED <<pc, todo, errors, valid, first, others, files, nilMaps, command, clientAt, calls,
                   exitCode, payload, mergeVars>>

----------------------------------------------------------------------------
(* MergeToJSON (pkg/config): the payload sent to the API.  A JSON value is *)
(* kept by its kind; of an object only the member names are kept.          *)

JSONNull == [kind |-> "null", keys |-> {}, str |-> ""]
JSONObject(m) == [kind |-> "object", keys |-> DOMAIN m, str |-> ""]
JSONString(str) == [kind |-> "string", keys |-> {}, str |-> str]

\* encoding/json on a map: null for the nil map, an object otherwise
marshalMap(isNil, m) == IF isNil THEN JSONNull ELSE JSONObject(m)

\* the payload marshalled with the maps as the configuration holds them
MergeToJSON_asHeld(cfg, nils) ==
    [resources |-> marshalMap("resources" \in nils, cfg.Resources),
     entitlements |-> marshalMap("entitlements" \in nils, cfg.Entitlements),
     features |-> marshalMap("features" \in nils, cfg.Features),
     plans |-> marshalMap("plans" \in nils, cfg.Plans),
     version |-> JSONString("1.0")]

\* MergeToJSON on the configuration cfg whose nil maps are nils; no field of
\* ConfigPayload has omitempty, so every field is a member of the output
MergeToJSON(cfg, nils) ==
    LET afterResources == nils \ {"resources"}
        afterEntitlements == afterResources \ {"entitlements"}
        afterFeatures == afterEntitlements \ {"features"}
        afterPlans == afterFeatures \ {"plans"}
    IN  [resources |-> marshalMap("resources" \in afterPlans, cfg.Resources),
         entitlements |-> marshalMap("entitlements" \in afterPlans, cfg.Entitlements),
         features |-> marshalMap("features" \in afterPlans, cfg.Features),
         plans |-> marshalMap("plans" \in afterPlans, cfg.Plans),
         version |-> JSONString("1.0")]

\* a caller serialises the configuration it has loaded
CallMergeToJSON ==
    /\ cpc = "loaded"
    /\ payload' = MergeToJSON(config, nilMaps)
    /\ cpc' = "serialized"
    /\ UNCHANGED <<config, pc, todo, errors, valid, first, others, loadVars, command, clientAt, calls,
                   exitCode, mergeVars>>

LoadNext ==
    \/ loadResourcesConfig
    \/ loadEntitlementsConfig
    \/ loadFeaturesConfig
    \/ loadPlansConfig
    \/ loadSDKConfig
    \/ CallMergeToJSON

\* the documents a file of the directory may hold
ResourcesDocs ==
    {<<"o">> :> ResourceConfig(<<<<"x">>>>, <<>>, <<>>),
     <<"o">> :> ResourceConfig(<<>>, <<>>, <<>>)}
EntitlementsDocs ==
    {<<>>, <<"o", ":", "r">> :> [Roles |-> <<<<"x">>>>, Plans |-> <<>>]}
FeaturesDocs ==
    {<<"f">> :> [Plans |-> <<>>, DefaultEnabled |-> FALSE, Entitlements |-> <<>>]}
PlansDocs == {<<"p">> :> GoodPlan}
SDKDocs ==
    {<<SDKClient(S_typescript, <<"d">>, <<"k">>, <<>>, <<"n">>)>>,
     <<SDKClient(S_typescript, <<"d">>, <<"k">>, <<>>, <<"n">>),
       SDKClient(S_go, <<"d">>, <<"k">>, <<"m">>, <<"n">>)>>,
     <<SDKClient(S_typescript, <<"d">>, <<"k">>, <<>>, <<"n">>),
       SDKClient(S_go, <<"e">>, <<"k">>, <<"m">>, <<"n">>)>>}

Unparsed == {"missing", "unreadable", "malformed", "empty"}

FilesOf(docs) ==
    {File(status, <<>>) : status \in Unparsed} \cup {File("mapping", d) : d \in docs}

\* every state of the five files
Directories ==
    [resources : FilesOf(ResourcesDocs), entitlements : FilesOf(EntitlementsDocs),
     features : FilesOf(FeaturesDocs), plans : FilesOf(PlansDocs),
     config : FilesOf(SDKDocs)]

\* LoadBlimuConfig entered, lines 76-78
LoadEntry ==
    /\ config = EmptyBlimuConfig
    /\ nilMaps = Sections
    /\ loadResult = NotReturned

LoadInit ==
    /\ files \in Directories
    /\ LoadEntry
    /\ cpc = "loadResources"
    /\ command = <<>>
    /\ clientAt = 0
    /\ calls = <<>>
    /\ exitCode = -1
    /\ payload = <<>>
    /\ ValidatorIdle
    /\ OthersIdle
    /\ MergeIdle

LoadSpec == LoadInit /\ [][LoadNext]_vars

----------------------------------------------------------------------------
\* the files in the order LoadBlimuConfig is to read them
LoadOrder == <<"resources", "entitlements", "features", "plans", "config">>

FileName(f) == CASE f = "resources" -> "resources.yml"
                 [] f = "entitlements" -> "entitlements.yml"
                 [] f = "features" -> "features.yml"
                 [] f = "plans" -> "plans.yml"
                 [] f = "config" -> "config.yml"

\* the file stops the load: resources.yml when it cannot be read or parsed,
\* another file when it is there and cannot be read or parsed
Fatal(f) ==
    IF f = "resources"
    THEN files[f].status \in {"missing", "unreadable", "malformed"}
    ELSE files[f].status \in {"unreadable", "malformed"}

\* C19: LoadBlimuConfig fails exactly when resources.yml is missing, unreadable
\* or malformed or a present optional file is unreadable or malformed; it then
\* returns no configuration and an error naming the first such file in the
\* order resources, entitlements, features, plans, config; when it succeeds, a
\* missing entitlements, features or plans file leaves an empty mapping and a
\* missing config.yml leaves the SDK section unset.
C19_LoadFailsExactly ==
    loadResult.returned =>
        LET fatal == {i \in 1..5 : Fatal(LoadOrder[i])} IN
        IF fatal # {}
        THEN /\ loadResult.configIsNil
             /\ loadResult.err # <<>>
             /\ loadResult.err[1] \in {"failed to read ", "failed to parse "}
             /\ loadResult.err[2] = FileName(LoadOrder[Min(fatal)])
        ELSE /\ ~loadResult.configIsNil
             /\ loadResult.err = <<>>
             /\ \A sec \in {"entitlements", "features", "plans"} :
                    files[sec].status = "missing" =>
                        /\ sec \notin nilMaps
                        /\ sectionKeys(config, sec) = {}
             /\ files.config.status = "missing" => config.SDKConfig.isNil

\* two files stop the load, after an optional file that is missing
C19_Witness ==
    /\ loadResult.returned
    /\ files.resources.status = "mapping"
    /\ files.entitlements.status = "missing"
    /\ files.features.status = "malformed"
    /\ files.plans.status = "unreadable"
    /\ loadResult.err[2] = "features.yml"

\* C18: whatever the configuration, nil and empty section maps included, the
\* output of MergeToJSON has the members resources, entitlements, features and
\* plans, each an object, and the member version with the string "1.0".
C18_PayloadShape ==
    cpc = "serialized" =>
        /\ DOMAIN payload = {"resources", "entitlements", "features", "plans", "version"}
        /\ \A sec \in Sections : payload[sec].kind = "object"
        /\ payload.version = JSONString("1.0")

\* a configuration serialised with a nil map, an empty map and a filled one
C18_Witness ==
    /\ cpc = "serialized"
    /\ "resources" \in nilMaps
    /\ "plans" \in nilMaps
    /\ "entitlements" \notin nilMaps
    /\ config.Entitlements = <<>>
    /\ DOMAIN config.Features # {}
    /\ payload.resources.keys = {}

----------------------------------------------------------------------------
(* SaveBlimuConfig (pkg/config) followed by LoadBlimuConfig on the same    *)
(* directory, as after a pull.                                             *)

\* yaml.Marshal of a section: the document yaml.Unmarshal reads back; a nil
\* map and an empty one both give the document {}
yamlMarshal(section) == File("mapping", section)

\* lines 203-234: the files SaveBlimuConfig writes for cfg, in its order
Writes(cfg) ==
    <<<<"resources", yamlMarshal(cfg.Resources)>>>>
    \o (IF Cardinality(DOMAIN cfg.Entitlements) > 0
        THEN <<<<"entitlements", yamlMarshal(cfg.Entitlements)>>>> ELSE <<>>)
    \o (IF Cardinality(DOMAIN cfg.Features) > 0
        THEN <<<<"features", yamlMarshal(cfg.Features)>>>> ELSE <<>>)
    \o (IF Cardinality(DOMAIN cfg.Plans) > 0
        THEN <<<<"plans", yamlMarshal(cfg.Plans)>>>> ELSE <<>>)
    \o (IF ~cfg.SDKConfig.isNil
        THEN <<<<"config", yamlMarshal(cfg.SDKConfig.Clients)>>>> ELSE <<>>)

\* the directory after the first k of the writes w
Written(dir, w, k) ==
    [f \in DOMAIN dir |->
        IF \E i \in 1..k : w[i][1] = f
        THEN w[CHOOSE i \in 1..k : w[i][1] = f][2]
        ELSE dir[f]]

\* SaveBlimuConfig(dir, saved), lines 197-237: every write succeeds, or
\* os.MkdirAll or one os.WriteFile fails, the file it was to write left as it
\* was or truncated; then LoadBlimuConfig is entered
SaveBlimuConfig ==
    /\ cpc = "save"
    /\ LET w == Writes(saved) IN
       \/ /\ files' = Written(files, w, Len(w))
          /\ saveResult' = "ok"
          /\ cpc' = "loadResources"
       \/ \E k \in 0..(Len(w) - 1) :
            /\ \/ files' = Written(files, w, k)
               \/ files' = [Written(files, w, k) EXCEPT ![w[k + 1][1]] = File("empty", <<>>)]
            /\ saveResult' = "error"
            /\ cpc' = "saveFailed"
    /\ UNCHANGED <<config, pc, todo, errors, valid, first, besideSave, saved, nilMaps,
                   loadResult, command, clientAt, calls, exitCode, payload, mergeVars>>

SaveNext ==
    \/ SaveBlimuConfig
    \/ loadResourcesConfig
    \/ loadEntitlementsConfig
    \/ loadFeaturesConfig
    \/ loadPlansConfig
    \/ loadSDKConfig

\* what the directory holds before the save
SaveDirectories ==
    [resources : FilesOf(ResourcesDocs),
     entitlements : {File("missing", <<>>), File("malformed", <<>>)}
                        \cup {File("mapping", d) : d \in EntitlementsDocs},
     features : {File("missing", <<>>), File("malformed", <<>>)}
                        \cup {File("mapping", d) : d \in FeaturesDocs},
     plans : {File("missing", <<>>)} \cup {File("mapping", d) : d \in PlansDocs},
     config : {File("missing", <<>>),
               File("mapping", <<SDKClient(S_go, <<"e">>, <<"k">>, <<"m">>, <<"n">>)>>)}]

\* the configurations saved: each section empty or filled, with or without an
\* SDK section
SavedConfigs ==
    {BlimuConfig(resources, entitlements, features, plans, sdk) :
        resources \in {<<>>, <<"r">> :> ResourceConfig(<<<<"y">>>>, <<>>, <<>>)},
        entitlements \in {<<>>, <<"r", ":", "e">> :> [Roles |-> <<<<"y">>>>, Plans |-> <<>>]},
        features \in {<<>>, <<"g">> :> [Plans |-> <<>>, DefaultEnabled |-> TRUE,
                                        Entitlements |-> <<>>]},
        plans \in {<<>>, <<"q">> :> GoodPlan},
        sdk \in {NoSDK, SDK(<<SDKClient(S_typescript, <<"d">>, <<"k">>, <<>>, <<"n">>)>>)}}

SaveInit ==
    /\ files \in SaveDirectories
    /\ saved \in SavedConfigs
    /\ saveResult = "none"
    /\ LoadEntry
    /\ cpc = "save"
    /\ command = <<>>
    /\ clientAt = 0
    /\ calls = <<>>
    /\ exitCode = -1
    /\ payload = <<>>
    /\ ValidatorIdle
    /\ CycleIdle
    /\ EnvIdle
    /\ OAuthIdle
    /\ MergeIdle

SaveSpec == SaveInit /\ [][SaveNext]_vars

SectionOf(cfg, sec) ==
    CASE sec = "resources" -> cfg.Resources
      [] sec = "entitlements" -> cfg.Entitlements
      [] sec = "features" -> cfg.Features
      [] sec = "plans" -> cfg.Plans

\* C27: once SaveBlimuConfig(dir, cfg) has returned without error,
\* LoadBlimuConfig(dir) returns a configuration whose resources, entitlements,
\* features and plans are those of cfg, whatever the directory held before,
\* a file left from before for a section cfg has empty included.
C27_SaveThenLoad ==
    (saveResult = "ok" /\ loadResult.returned) =>
        /\ ~loadResult.configIsNil
        /\ \A sec \in Sections : SectionOf(config, sec) = SectionOf(saved, sec)

----------------------------------------------------------------------------
(* MergeOpenAPISpecs (pkg/config).  An OpenAPI document is a               *)
(* map[string]interface{}; Go maps are references, so the maps live in     *)
(* heap, a sequence of objects, and a map value is the address (index) of  *)
(* its object.  A slice is kept by its elements, a tag by what the merge   *)
(* reads of it, any other value by the document it came from.              *)

MapV(addr) == [kind |-> "map", ref |-> addr, list |-> <<>>, str |-> ""]
ListV(list) == [kind |-> "list", ref |-> 0, list |-> list, str |-> ""]
StrV(str) == [kind |-> "str", ref |-> 0, list |-> <<>>, str |-> str]

\* v, ok := obj[k].(map[string]interface{})
IsMapAt(obj, k) == k \in DOMAIN obj /\ obj[k].kind = "map"

\* v, ok := obj[k].([]interface{})
IsListAt(obj, k) == k \in DOMAIN obj /\ obj[k].kind = "list"

\* obj[k] = v
Put(obj, k, v) == [x \in DOMAIN obj \cup {k} |-> IF x = k THEN v ELSE obj[x]]

\* for k, v := range src { dst[k] = v }
Overlay(src, dst) ==
    [x \in DOMAIN dst \cup DOMAIN src |-> IF x \in DOMAIN src THEN src[x] ELSE dst[x]]

\* the base document returned itself, no copy made
newMergedSpec_alias(h, baseSpec) == [heap |-> h, addr |-> baseSpec]

\* lines 88-91: a new map with the top-level entries of baseSpec
newMergedSpec(h, baseSpec) == [heap |-> Append(h, h[baseSpec]), addr |-> Len(h) + 1]

\* a path of the base kept when the custom document has it too
mergePaths_baseWins(h, merged, customSpec) ==
    IF IsMapAt(h[customSpec], "paths")
    THEN LET customPaths == h[customSpec]["paths"].ref IN
         IF IsMapAt(h[merged], "paths")
         THEN LET basePaths == h[merged]["paths"].ref IN
              [h EXCEPT ![basePaths] = Overlay(h[basePaths], h[customPaths])]
         ELSE [h EXCEPT ![merged] = Put(@, "paths", MapV(customPaths))]
    ELSE h

\* lines 94-104
mergePaths(h, merged, customSpec) ==
    IF IsMapAt(h[customSpec], "paths")
    THEN LET customPaths == h[customSpec]["paths"].ref IN
         IF IsMapAt(h[merged], "paths")
         THEN LET basePaths == h[merged]["paths"].ref IN
              [h EXCEPT ![basePaths] = Overlay(h[customPaths], h[basePaths])]
         ELSE [h EXCEPT ![merged] = Put(@, "paths", MapV(customPaths))]
    ELSE h

RECURSIVE mergeComponentTypes(_, _, _, _)
\* lines 110-122, the loop over the component types in todoTypes
mergeComponentTypes(h, baseComponents, customComponents, todoTypes) ==
    IF todoTypes = {} THEN h
    ELSE LET componentType == CHOOSE t \in todoTypes : TRUE
             rest == todoTypes \ {componentType}
         IN  IF IsMapAt(h[customComponents], componentType)
             THEN LET customSpecs == h[customComponents][componentType].ref IN
                  IF IsMapAt(h[baseComponents], componentType)
                  THEN LET baseSpecs == h[baseComponents][componentType].ref IN
                       mergeComponentTypes(
                           [h EXCEPT ![baseSpecs] = Overlay(h[customSpecs], h[baseSpecs])],
                           baseComponents, customComponents, rest)
                  ELSE mergeComponentTypes(
                           [h EXCEPT ![baseComponents] =
                               Put(@, componentType, MapV(customSpecs))],
                           baseComponents, customComponents, rest)
             ELSE mergeComponentTypes(h, baseComponents, customComponents, rest)

\* lines 107-127
mergeComponents(h, merged, customSpec) ==
    IF IsMapAt(h[customSpec], "components")
    THEN LET customComponents == h[customSpec]["components"].ref IN
         IF IsMapAt(h[merged], "components")
         THEN mergeComponentTypes(h, h[merged]["components"].ref, customComponents,
                                  DOMAIN h[customComponents])
         ELSE [h EXCEPT ![merged] = Put(@, "components", MapV(customComponents))]
    ELSE h

\* tagMap, ok := tag.(map[string]interface{}); name, ok := tagMap["name"].(string)
HasName(tag) == tag.isMap /\ tag.hasName

\* lines 130-156
mergeTags(h, merged, customSpec) ==
    IF IsListAt(h[customSpec], "tags")
    THEN LET customTags == h[customSpec]["tags"].list IN
         IF IsListAt(h[merged], "tags")
         THEN LET baseTags == h[merged]["tags"].list
                  existingTags == {baseTags[i].name :
                                      i \in {j \in 1..Len(baseTags) : HasName(baseTags[j])}}
                  Appended(tag) == HasName(tag) /\ tag.name \notin existingTags
              IN  [h EXCEPT ![merged] =
                      Put(@, "tags", ListV(baseTags \o SelectSeq(customTags, Appended)))]
         ELSE [h EXCEPT ![merged] = Put(@, "tags", ListV(customTags))]
    ELSE h

\* MergeOpenAPISpecs(baseSpec, customSpec) run on the heap h: the heap it
\* leaves and the address of the map it returns
MergeOpenAPISpecs(h, baseSpec, customSpec) ==
    LET new == newMergedSpec(h, baseSpec)
        h1 == mergePaths(new.heap, new.addr, customSpec)
        h2 == mergeComponents(h1, new.addr, customSpec)
        h3 == mergeTags(h2, new.addr, customSpec)
    IN  [heap |-> h3, addr |-> new.addr]

\* a document takes ObjectsPerSpec objects: its top-level map, its paths, its
\* components, and the component types schemas and responses
ObjectsPerSpec == 5

\* where the caller holds the two documents
BaseSpec == 1
CustomSpec == ObjectsPerSpec + 1

\* the call of MergeOpenAPISpecs on the two documents of the heap
CallMergeOpenAPISpecs ==
    /\ mergedSpec = 0
    /\ heap # <<>>
    /\ LET r == MergeOpenAPISpecs(heap, BaseSpec, CustomSpec) IN
        /\ heap' = r.heap
        /\ mergedSpec' = r.addr
    /\ heapAtCall' = heap
    /\ UNCHANGED <<config, pc, todo, errors, valid, first, others, loadVars, cliVars,
                   heapAtFetch>>

MergeNext == CallMergeOpenAPISpecs

----------------------------------------------------------------------------
(* The documents MergeOpenAPISpecs is tried on. *)

MaxTags == 2

PathKeys == {"/a", "/b"}
ComponentTypes == {"schemas", "responses"}
SpecNames == {"X", "Y"}
TagNames == {"t", "u"}

\* what a key of a document holds: nothing, a value that is no map (and no
\* list), or a map with the keys given
Absent == [kind |-> "absent", keys |-> {}]
Scalar == [kind |-> "scalar", keys |-> {}]
MapOf(keys) == [kind |-> "map", keys |-> keys]
ShapesOver(K) == {Absent, Scalar} \cup {MapOf(keys) : keys \in SUBSET K}

\* a components value: nothing, no map, or a map of component types
NoComponents == [kind |-> "absent", schemas |-> Absent, responses |-> Absent]
ScalarComponents == [kind |-> "scalar", schemas |-> Absent, responses |-> Absent]
ComponentShapes ==
    {NoComponents, ScalarComponents}
    \cup {[kind |-> "map", schemas |-> a, responses |-> b] :
             a \in ShapesOver(SpecNames), b \in ShapesOver(SpecNames)}

\* an element of a tags list: a map with a string name, a map without one,
\* or no map; from tells the documents apart
Tag(isMap, hasName, name, from) ==
    [isMap |-> isMap, hasName |-> hasName, name |-> name, from |-> from]
TagsOf(from) ==
    {Tag(TRUE, TRUE, n, from) : n \in TagNames}
    \cup {Tag(TRUE, FALSE, "", from), Tag(FALSE, FALSE, "", from)}

NoTags == [kind |-> "absent", list |-> <<>>]
ScalarTags == [kind |-> "scalar", list |-> <<>>]
TagShapes(from) ==
    {NoTags, ScalarTags}
    \cup {[kind |-> "list", list |-> l] : l \in SeqsUpTo(TagsOf(from), MaxTags)}

\* the value under a key with shape sh in the document called from, its map
\* (if it is one) at address addr
ValueOf(sh, from, addr) == IF sh.kind = "map" THEN MapV(addr) ELSE StrV(from)

\* the entries of a map with the keys given, each a value of the document
Leaves(keys, from) == [k \in keys |-> StrV(from)]

\* the ObjectsPerSpec objects of a document, the first at address off + 1
Document(paths, components, tags, from, off) ==
    <<[k \in {"info"}
            \cup (IF paths.kind = "absent" THEN {} ELSE {"paths"})
            \cup (IF components.kind = "absent" THEN {} ELSE {"components"})
            \cup (IF tags.kind = "absent" THEN {} ELSE {"tags"}) |->
          CASE k = "info" -> StrV(from)
            [] k = "paths" -> ValueOf(paths, from, off + 2)
            [] k = "components" -> ValueOf(components, from, off + 3)
            [] k = "tags" -> IF tags.kind = "list" THEN ListV(tags.list) ELSE StrV(from)],
      Leaves(paths.keys, from),
      [t \in {x \in ComponentTypes : components[x].kind # "absent"} |->
          ValueOf(components[t], from, IF t = "schemas" THEN off + 4 ELSE off + 5)],
      Leaves(components.schemas.keys, from),
      Leaves(components.responses.keys, from)>>

Documents(P, C, T, from, off) ==
    {Document(paths, components, tags, from, off) : paths \in P, components \in C, tags \in T}

\* the two documents vary in their paths, or in their components, or in their
\* tags, or in all three within a few shapes
IsHeap(h) ==
    \/ h \in {b \o c :
                b \in Documents(ShapesOver(PathKeys), {NoComponents}, {NoTags}, "base", 0),
                c \in Documents(ShapesOver(PathKeys), {NoComponents}, {NoTags},
                                "custom", ObjectsPerSpec)}
    \/ h \in {b \o c :
                b \in Documents({Absent}, ComponentShapes, {NoTags}, "base", 0),
                c \in Documents({Absent}, ComponentShapes, {NoTags},
                                "custom", ObjectsPerSpec)}
    \/ h \in {b \o c :
                b \in Documents({Absent}, {NoComponents}, TagShapes("base"), "base", 0),
                c \in Documents({Absent}, {NoComponents}, TagShapes("custom"),
                                "custom", ObjectsPerSpec)}
    \/ h \in {b \o c :
                b \in Documents({Absent, MapOf({"/a"})},
                                {NoComponents,
                                 [kind |-> "map", schemas |-> MapOf({"X"}),
                                  responses |-> Absent]},
                                {NoTags, [kind |-> "list",
                                          list |-> <<Tag(TRUE, TRUE, "t", "base")>>]},
                                "base", 0),
                c \in Documents({Absent, MapOf({"/a", "/b"})},
                                {NoComponents,
                                 [kind |-> "map", schemas |-> MapOf({"X", "Y"}),
                                  responses |-> MapOf({"X"})]},
                                {NoTags, [kind |-> "list",
                                          list |-> <<Tag(TRUE, TRUE, "u", "custom")>>]},
                                "custom", ObjectsPerSpec)}

\* no directory read and no command run, the configuration never loaded
MergeInit ==
    /\ IsHeap(heap)
    /\ heapAtCall = <<>>
    /\ mergedSpec = 0
    /\ heapAtFetch = <<>>
    /\ config = EmptyBlimuConfig
    /\ ValidatorIdle
    /\ OthersIdle
    /\ LoadIdle
    /\ CLIIdle

MergeSpec == MergeInit /\ [][MergeNext]_vars

----------------------------------------------------------------------------
\* the paths of the document at address doc in heap h, none when the
\* document has no paths map
PathsOf(h, doc) ==
    IF "paths" \in DOMAIN h[doc] /\ h[doc]["paths"].kind = "map"
    THEN h[h[doc]["paths"].ref]
    ELSE <<>>

\* the entries of component type t of the document at address doc
ComponentsOf(h, doc, t) ==
    IF "components" \in DOMAIN h[doc] /\ h[doc]["components"].kind = "map"
    THEN LET components == h[h[doc]["components"].ref] IN
         IF t \in DOMAIN components /\ components[t].kind = "map"
         THEN h[components[t].ref]
         ELSE <<>>
    ELSE <<>>

\* m has the keys of base and of custom, with the entry of custom where
\* custom has the key and the entry of base elsewhere
CustomOverBase(m, base, custom) ==
    /\ DOMAIN m = DOMAIN base \cup DOMAIN custom
    /\ \A k \in DOMAIN m : m[k] = IF k \in DOMAIN custom THEN custom[k] ELSE base[k]

\* C15: in the merged document every path has the custom document's entry when
\* the custom document defines that path and the base's entry otherwise, and
\* every component type is the key-by-key union of the base's and the custom
\* document's entries with the custom entry on a shared key; paths and
\* component types that only one side has are kept.
C15_CustomOverBase ==
    mergedSpec # 0 =>
        /\ CustomOverBase(PathsOf(heap, mergedSpec),
                          PathsOf(heapAtCall, BaseSpec), PathsOf(heapAtCall, CustomSpec))
        /\ \A t \in ComponentTypes :
              CustomOverBase(ComponentsOf(heap, mergedSpec, t),
                             ComponentsOf(heapAtCall, BaseSpec, t),
                             ComponentsOf(heapAtCall, CustomSpec, t))

\* both documents define path /a and schema X, each has something of its own
C15_Witness ==
    /\ mergedSpec # 0
    /\ LET bp == PathsOf(heapAtCall, BaseSpec)
           cp == PathsOf(heapAtCall, CustomSpec)
           bs == ComponentsOf(heapAtCall, BaseSpec, "schemas")
           cs == ComponentsOf(heapAtCall, CustomSpec, "schemas")
       IN  /\ DOMAIN bp = {"/a"}
           /\ DOMAIN cp = {"/a", "/b"}
           /\ bp["/a"] # cp["/a"]
           /\ DOMAIN bs = {"X"}
           /\ DOMAIN cs = {"X", "Y"}
           /\ DOMAIN ComponentsOf(heapAtCall, CustomSpec, "responses") = {"X"}
           /\ DOMAIN ComponentsOf(heapAtCall, BaseSpec, "responses") = {}

\* the tags list of the document at address doc, empty when it has none
TagsAt(h, doc) ==
    IF "tags" \in DOMAIN h[doc] /\ h[doc]["tags"].kind = "list"
    THEN h[doc]["tags"].list
    ELSE <<>>

Named(tag) == tag.isMap /\ tag.hasName

RECURSIVE IsSubsequence(_, _)
\* s is t with some elements left out
IsSubsequence(s, t) ==
    IF s = <<>> THEN TRUE
    ELSE IF t = <<>> THEN FALSE
    ELSE IF Head(s) = Head(t) THEN IsSubsequence(Tail(s), Tail(t))
    ELSE IsSubsequence(s, Tail(t))

\* C16 as stated: the merged tag list is the base tags in their order followed
\* by custom tags in their order, a custom tag being appended only if no tag of
\* that name is in the merged list already, from the base or appended before
\* it; so no appended tag bears a name the list already has.
C16_TagsDeduplicated ==
    (mergedSpec # 0 /\ IsListAt(heapAtCall[CustomSpec], "tags")) =>
        LET base == TagsAt(heapAtCall, BaseSpec)
            custom == TagsAt(heapAtCall, CustomSpec)
            merged == TagsAt(heap, mergedSpec)
        IN  /\ Len(merged) >= Len(base)
            /\ SubSeq(merged, 1, Len(base)) = base
            /\ IsSubsequence(SubSeq(merged, Len(base) + 1, Len(merged)), custom)
            /\ \A j \in (Len(base) + 1)..Len(merged) :
                  Named(merged[j]) =>
                      \A i \in 1..(j - 1) :
                          ~(Named(merged[i]) /\ merged[i].name = merged[j].name)

\* C17: the call leaves the caller's base document with the top-level keys it
\* had, each bound to the value it had (the same map, the same list): a base
\* without paths, components or tags still has none, and its tags entry is
\* still its own list, though the returned map differs.
C17_BaseTopLevelKept ==
    mergedSpec # 0 => heap[BaseSpec] = heapAtCall[BaseSpec]

\* the base had no paths and one tag; the returned map has paths and two tags
C17_Witness ==
    /\ mergedSpec # 0
    /\ "paths" \notin DOMAIN heap[BaseSpec]
    /\ "paths" \in DOMAIN heap[mergedSpec]
    /\ Len(TagsAt(heap, BaseSpec)) = 1
    /\ Len(TagsAt(heap, mergedSpec)) = 2
    /\ ComponentsOf(heap, BaseSpec, "schemas") # ComponentsOf(heapAtCall, BaseSpec, "schemas")

----------------------------------------------------------------------------
(* The commands that read the .blimu directory and talk to the Blimu API:  *)
(* validate (internal/cli runValidate, and cmd/validate                    *)
(* ValidateCommand.Run), generate (runGenerate) and definitions update     *)
(* (UpdateCommand.Run).  What the surroundings answer (credentials, the    *)
(* API, the file system beyond .blimu) is chosen freely at each step.  A   *)
(* command that returns an error makes Execute call os.Exit(1).            *)

Command(name, remote, force) == [name |-> name, remote |-> remote, force |-> force]

\* a request sent to the Blimu API and how it ended
Call(api, result) == [api |-> api, result |-> result]

\* rootCmd.Execute() returned err, or os.Exit(code) was called
Exit(code) ==
    /\ exitCode' = code
    /\ cpc' = "exited"

\* result := blimu.ValidateConfig(blimuConfig), the call
CallValidateConfig ==
    /\ pc' = "resources"
    /\ todo' = DOMAIN config.Resources
    /\ errors' = <<>>
    /\ valid' = TRUE

\* config.FindBlimuConfig("."): .blimu/resources.yml must be there
FindBlimuConfig == files.resources.status # "missing"

\* runValidate lines 119-128, up to the call of LoadBlimuConfig
runValidate_find ==
    /\ command.name = "runValidate"
    /\ cpc = "start"
    /\ IF FindBlimuConfig
       THEN /\ cpc' = "loadResources"
            /\ UNCHANGED exitCode
       ELSE Exit(1)
    /\ UNCHANGED <<config, pc, todo, errors, valid, first, others, loadVars, command, clientAt,
                   calls, payload, mergeVars>>

\* runValidate lines 128-135, from the return of LoadBlimuConfig to the call
\* of ValidateConfig
runValidate_loaded ==
    /\ command.name = "runValidate"
    /\ cpc \in {"loaded", "loadFailed"}
    /\ IF cpc = "loadFailed"
       THEN /\ Exit(1)
            /\ UNCHANGED <<pc, todo, errors, valid>>
       ELSE /\ CallValidateConfig
            /\ cpc' = "validating"
            /\ UNCHANGED exitCode
    /\ UNCHANGED <<config, first, others, loadVars, command, clientAt, calls, payload, mergeVars>>

\* local errors no longer end the command when --remote is absent
runValidate_validated_noExit ==
    /\ command.name = "runValidate"
    /\ cpc = "validating"
    /\ pc = "done"
    /\ IF command.remote
       THEN /\ cpc' = "remote"
            /\ UNCHANGED exitCode
       ELSE Exit(0)
    /\ UNCHANGED <<config, pc, todo, errors, valid, first, others, loadVars, command, clientAt,
                   calls, payload, mergeVars>>

\* runValidate lines 137-151 and, when --remote is absent, 158-163
runValidate_validated ==
    /\ command.name = "runValidate"
    /\ cpc = "validating"
    /\ pc = "done"
    /\ IF ~valid /\ ~command.remote
       THEN Exit(1)
       ELSE IF command.remote
       THEN /\ cpc' = "remote"
            /\ UNCHANGED exitCode
       ELSE Exit(0)
    /\ UNCHANGED <<config, pc, todo, errors, valid, first, others, loadVars, command, clientAt,
                   calls, payload, mergeVars>>

\* runValidate lines 152-163 with runRemoteValidation, lines 166-205
runRemoteValidation ==
    /\ command.name = "runValidate"
    /\ cpc = "remote"
    /\ payload' = MergeToJSON(config, nilMaps)
    /\ \/ \* auth.NewClientFromEnv fails, or the client has no platform SDK
          /\ UNCHANGED calls
          /\ Exit(1)
       \/ /\ calls' = Append(calls, Call("ValidateAuth", "error"))
          /\ Exit(1)
       \/ /\ calls' = calls \o <<Call("ValidateAuth", "ok"),
                                 Call("ValidateConfig", "error")>>
          /\ Exit(1)
       \/ /\ calls' = calls \o <<Call("ValidateAuth", "ok"),
                                 Call("ValidateConfig", "invalid")>>
          /\ Exit(1)
       \/ /\ calls' = calls \o <<Call("ValidateAuth", "ok"),
                                 Call("ValidateConfig", "valid")>>
          /\ Exit(0)
    /\ UNCHANGED <<config, pc, todo, errors, valid, first, others, loadVars, command, clientAt,
                   mergeVars>>

\* cmd/validate: contains(s, substr), a substring test
validate_contains(str, substr) ==
    \E i \in 0..(Len(str) - Len(substr)) : SubSeq(str, i + 1, i + Len(substr)) = substr

\* cmd/validate: performLocalValidation finds no error
performLocalValidation(cfg) ==
    /\ DOMAIN cfg.Resources # {}
    /\ \A resourceName \in DOMAIN cfg.Resources :
          Len(cfg.Resources[resourceName].Roles) # 0
    /\ \A entitlementName \in DOMAIN cfg.Entitlements :
          validate_contains(entitlementName, <<":">>)

\* ValidateCommand.Run line 49, the call of LoadBlimuConfig
ValidateCommand_Run ==
    /\ command.name = "ValidateCommand.Run"
    /\ cpc = "start"
    /\ cpc' = "loadResources"
    /\ UNCHANGED <<config, pc, todo, errors, valid, first, others, loadVars, command, clientAt,
                   calls, exitCode, payload, mergeVars>>

\* ValidateCommand.Run lines 50-104, from the return of LoadBlimuConfig on
ValidateCommand_Run_loaded ==
    /\ command.name = "ValidateCommand.Run"
    /\ cpc \in {"loaded", "loadFailed"}
    /\ IF cpc = "loadFailed"
       THEN /\ Exit(1)
            /\ UNCHANGED <<payload, calls>>
       ELSE /\ payload' = MergeToJSON(config, nilMaps)
            /\ \/ \* shared.GetAuthClient fails: performLocalValidation
                  /\ UNCHANGED calls
                  /\ Exit(IF performLocalValidation(config) THEN 0 ELSE 1)
               \/ /\ calls' = Append(calls, Call("ValidateConfig", "error"))
                  /\ Exit(1)
               \/ /\ calls' = Append(calls, Call("ValidateConfig", "invalid"))
                  /\ Exit(1)
               \/ /\ calls' = Append(calls, Call("ValidateConfig", "valid"))
                  /\ Exit(0)
    /\ UNCHANGED <<config, pc, todo, errors, valid, first, others, loadVars, command, clientAt,
                   mergeVars>>

\* runGenerate lines 44-53, up to the call of LoadBlimuConfig
runGenerate_find ==
    /\ command.name = "runGenerate"
    /\ cpc = "start"
    /\ IF FindBlimuConfig
       THEN /\ cpc' = "loadResources"
            /\ UNCHANGED exitCode
       ELSE Exit(1)
    /\ UNCHANGED <<config, pc, todo, errors, valid, first, others, loadVars, command, clientAt,
                   calls, payload, mergeVars>>

\* runGenerate lines 53-64, from the return of LoadBlimuConfig to the call of
\* ValidateConfig
runGenerate_loaded ==
    /\ command.name = "runGenerate"
    /\ cpc \in {"loaded", "loadFailed"}
    /\ IF cpc = "loadFailed"
       THEN /\ Exit(1)
            /\ UNCHANGED <<pc, todo, errors, valid>>
       ELSE IF config.SDKConfig.isNil \/ Len(config.SDKConfig.Clients) = 0
       THEN /\ Exit(1)
            /\ UNCHANGED <<pc, todo, errors, valid>>
       ELSE /\ CallValidateConfig
            /\ cpc' = "validating"
            /\ UNCHANGED exitCode
    /\ UNCHANGED <<config, first, others, loadVars, command, clientAt, calls, payload, mergeVars>>

\* the base document the API serves
FetchedSpecs ==
    Documents({Absent, MapOf({"/a"})},
              {[kind |-> "map", schemas |-> MapOf({"X"}), responses |-> Absent]},
              {[kind |-> "list", list |-> <<Tag(TRUE, TRUE, "t", "base")>>]},
              "base", 0)

\* the documents the API generates for a client, their maps allocated from
\* address off + 1 on
ResponseSpecs(off) ==
    Documents({MapOf({"/a"}), MapOf({"/b"})},
              {[kind |-> "map", schemas |-> MapOf({"Y"}), responses |-> MapOf({"X"})]},
              {[kind |-> "list", list |-> <<Tag(TRUE, TRUE, "u", "custom")>>]},
              "custom", off)

\* runGenerate lines 65-116, from the return of ValidateConfig to the loop
\* over the clients
runGenerate_validated ==
    /\ command.name = "runGenerate"
    /\ cpc = "validating"
    /\ pc = "done"
    /\ IF ~valid
       THEN /\ Exit(1)
            /\ UNCHANGED <<calls, payload, heap, heapAtFetch>>
       ELSE \/ \* an output directory exists
               /\ ~command.force
               /\ Exit(1)
               /\ UNCHANGED <<calls, payload, heap, heapAtFetch>>
            \/ \* LoadCLIConfig or GetAPIClient fails
               /\ Exit(1)
               /\ UNCHANGED <<calls, payload, heap, heapAtFetch>>
            \/ /\ calls' = Append(calls, Call("ValidateAuth", "error"))
               /\ Exit(1)
               /\ UNCHANGED <<payload, heap, heapAtFetch>>
            \/ /\ calls' = calls \o <<Call("ValidateAuth", "ok"),
                                      Call("FetchOpenAPISpec", "error")>>
               /\ payload' = MergeToJSON(config, nilMaps)
               /\ Exit(1)
               /\ UNCHANGED <<heap, heapAtFetch>>
            \/ /\ calls' = calls \o <<Call("ValidateAuth", "ok"),
                                      Call("FetchOpenAPISpec", "ok")>>
               /\ payload' = MergeToJSON(config, nilMaps)
               /\ heap' \in FetchedSpecs
               /\ heapAtFetch' = heap'
               /\ cpc' = "clients"
               /\ UNCHANGED exitCode
    /\ UNCHANGED <<config, pc, todo, errors, valid, first, others, loadVars, command, clientAt,
                   heapAtCall, mergedSpec>>

\* runGenerate lines 119-159, one iteration of the loop over the clients,
\* and lines 161-192 after the last one
runGenerate_client ==
    /\ command.name = "runGenerate"
    /\ cpc = "clients"
    /\ clientAt < Len(config.SDKConfig.Clients)
    /\ \/ /\ calls' = Append(calls, Call("GenerateSDK", "error"))
          /\ Exit(1)
          /\ UNCHANGED <<clientAt, mergeVars>>
       \/ \* response.Success is false
          /\ calls' = Append(calls, Call("GenerateSDK", "failed"))
          /\ Exit(1)
          /\ UNCHANGED <<clientAt, mergeVars>>
       \/ /\ calls' = Append(calls, Call("GenerateSDK", "ok"))
          /\ \E response \in ResponseSpecs(Len(heap)) :
                LET r == MergeOpenAPISpecs(heap \o response, BaseSpec, Len(heap) + 1) IN
                /\ heapAtCall' = heap \o response
                /\ heap' = r.heap
                /\ mergedSpec' = r.addr
          /\ UNCHANGED heapAtFetch
          /\ \/ \* generateSDKFromSpec fails
                /\ Exit(1)
                /\ UNCHANGED clientAt
             \/ /\ clientAt' = clientAt + 1
                /\ IF clientAt' = Len(config.SDKConfig.Clients)
                   THEN Exit(0)
                   ELSE UNCHANGED <<cpc, exitCode>>
    /\ UNCHANGED <<config, pc, todo, errors, valid, first, others, loadVars, command, payload>>

\* UpdateCommand.Run lines 59-92, up to the call of LoadBlimuConfig
UpdateCommand_Run ==
    /\ command.name = "UpdateCommand.Run"
    /\ cpc = "start"
    /\ \/ \* no current environment, or no environment or workspace ID
          Exit(1)
       \/ /\ cpc' = "loadResources"
          /\ UNCHANGED exitCode
    /\ UNCHANGED <<config, pc, todo, errors, valid, first, others, loadVars, command, clientAt,
                   calls, payload, mergeVars>>

\* UpdateCommand.Run lines 92-164, from the return of LoadBlimuConfig on
UpdateCommand_Run_loaded ==
    /\ command.name = "UpdateCommand.Run"
    /\ cpc \in {"loaded", "loadFailed"}
    /\ IF cpc = "loadFailed"
       THEN /\ Exit(1)
            /\ UNCHANGED <<payload, calls>>
       ELSE \/ \* shared.GetAuthClientWithDevMode fails, or no platform SDK
               /\ Exit(1)
               /\ UNCHANGED <<payload, calls>>
            \/ /\ payload' = MergeToJSON(config, nilMaps)
               /\ calls' = Append(calls, Call("Definitions.Update", "error"))
               /\ Exit(1)
            \/ /\ payload' = MergeToJSON(config, nilMaps)
               /\ calls' = Append(calls, Call("Definitions.Update", "ok"))
               /\ Exit(0)
    /\ UNCHANGED <<config, pc, todo, errors, valid, first, others, loadVars, command, clientAt,
                   mergeVars>>

CLINext ==
    \/ runValidate_find
    \/ runValidate_loaded
    \/ runValidate_validated
    \/ runRemoteValidation
    \/ ValidateCommand_Run
    \/ ValidateCommand_Run_loaded
    \/ runGenerate_find
    \/ runGenerate_loaded
    \/ runGenerate_validated
    \/ runGenerate_client
    \/ UpdateCommand_Run
    \/ UpdateCommand_Run_loaded
    \/ loadResourcesConfig
    \/ loadEntitlementsConfig
    \/ loadFeaturesConfig
    \/ loadPlansConfig
    \/ loadSDKConfig
    \/ StepResource
    \/ StepEntitlement
    \/ StepFeature
    \/ StepPlan
    \/ LoopExit
    \/ StepSDK
    \/ Return

\* the command lines tried
Commands ==
    {Command("runValidate", remote, FALSE) : remote \in BOOLEAN}
    \cup {Command("runGenerate", FALSE, force) : force \in BOOLEAN}
    \cup {Command("ValidateCommand.Run", FALSE, FALSE),
          Command("UpdateCommand.Run", FALSE, FALSE)}

\* the directories the commands are run in
CLIDirectories ==
    [resources : {File(st, <<>>) : st \in {"missing", "malformed", "empty"}}
                     \cup {File("mapping", d) : d \in ResourcesDocs},
     entitlements : {File(st, <<>>) : st \in {"missing", "malformed"}}
                        \cup {File("mapping", d) : d \in EntitlementsDocs},
     features : {File("missing", <<>>)} \cup {File("mapping", d) : d \in FeaturesDocs},
     plans : {File("missing", <<>>)} \cup {File("mapping", d) : d \in PlansDocs},
     config : {File("missing", <<>>)} \cup {File("mapping", d) : d \in SDKDocs}]

CLIInit ==
    /\ command \in Commands
    /\ files \in CLIDirectories
    /\ LoadEntry
    /\ cpc = "start"
    /\ clientAt = 0
    /\ calls = <<>>
    /\ exitCode = -1
    /\ payload = <<>>
    /\ ValidatorIdle
    /\ OthersIdle
    /\ MergeIdle

CLISpec == CLIInit /\ [][CLINext]_vars

----------------------------------------------------------------------------
\* the requests that push definitions or generate an SDK
Submissions == {"Definitions.Update", "GenerateSDK", "FetchOpenAPISpec"}

\* C12 as stated: generate and definitions update run ValidateConfig on the
\* loaded configuration before any remote call and abort when it reports
\* errors, so no definitions update, SDK generation request or base-spec fetch
\* is sent unless ValidateConfig has returned and found the configuration valid
\* (neither command has an option to continue despite local errors).
C12_ValidatedBeforeSubmission ==
    command.name \in {"runGenerate", "UpdateCommand.Run"} =>
        \A i \in 1..Len(calls) :
            calls[i].api \in Submissions => (pc = "done" /\ valid)

\* C13 as stated: in the validate command local validation runs first; no
\* request is sent to the API unless --remote was given; with --remote the
\* server-side validation is attempted once local validation has returned,
\* whether it passed or failed.
C13_LocalFirstRemoteOnRequest ==
    command.name \in {"runValidate", "ValidateCommand.Run"} =>
        /\ calls # <<>> => (pc = "done" /\ command.remote)
        /\ (cpc = "exited" /\ pc = "done" /\ command.remote) => payload # <<>>

\* the server-side validation was asked for and did not end with the API
\* finding the configuration valid
RemoteFailed ==
    /\ command.remote
    /\ ~(calls # <<>> /\ calls[Len(calls)] = Call("ValidateConfig", "valid"))

\* C14: once local validation has returned, the validate command ends with
\* exit code 0 when it passed and --remote was not given, with a non-zero code
\* when it failed and --remote was not given, and with a non-zero code whenever
\* the requested remote validation failed (no credentials, authentication
\* rejected, request error, or errors reported by the server).
C14_ExitCodes ==
    (command.name = "runValidate" /\ cpc = "exited" /\ pc = "done") =>
        /\ (valid /\ ~command.remote) => exitCode = 0
        /\ (~valid /\ ~command.remote) => exitCode # 0
        /\ RemoteFailed => exitCode # 0

\* local validation passed, the server reported errors
C14_Witness ==
    /\ command.name = "runValidate"
    /\ cpc = "exited"
    /\ pc = "done"
    /\ valid
    /\ command.remote
    /\ calls = <<Call("ValidateAuth", "ok"), Call("ValidateConfig", "invalid")>>
    /\ exitCode = 1

----------------------------------------------------------------------------
\* C25: the validate command never ends with exit code zero in a run where
\* local validation reported an error, the run where --remote is given and
\* the server finds no error included.
C25_NoZeroExitWithLocalErrors ==
    (command.name = "runValidate" /\ cpc = "exited" /\ pc = "done" /\ errors # <<>>)
        => exitCode # 0

----------------------------------------------------------------------------
\* the address of the document the API generated for the client of the
\* latest iteration
Fragment == Len(heapAtCall) - ObjectsPerSpec + 1

\* C26: in a run of the generate command the merged specification of each
\* client is the base specification as it was fetched overlaid with the
\* fragment generated for that client alone, in its paths and in each of its
\* component types; and before every iteration the base specification has the
\* paths and components it was fetched with.
C26_FragmentsKeptApart ==
    (command.name = "runGenerate" /\ mergedSpec # 0) =>
        /\ CustomOverBase(PathsOf(heap, mergedSpec),
                          PathsOf(heapAtFetch, BaseSpec), PathsOf(heapAtCall, Fragment))
        /\ \A t \in ComponentTypes :
              CustomOverBase(ComponentsOf(heap, mergedSpec, t),
                             ComponentsOf(heapAtFetch, BaseSpec, t),
                             ComponentsOf(heapAtCall, Fragment, t))
        /\ cpc = "clients" =>
              /\ PathsOf(heap, BaseSpec) = PathsOf(heapAtFetch, BaseSpec)
              /\ \A t \in ComponentTypes :
                    ComponentsOf(heap, BaseSpec, t) = ComponentsOf(heapAtFetch, BaseSpec, t)

----------------------------------------------------------------------------
(* CLIConfig (pkg/config/cli_config.go): the environments of the CLI and   *)
(* the one in use.  A name is a Go string, the empty one <<>>.  Of an       *)
(* Environment its Name and its AccessToken are kept.                      *)

Environment(name, accessToken) == [Name |-> name, AccessToken |-> accessToken]

CLIConfig(currentEnvironment, environments) ==
    [CurrentEnvironment |-> currentEnvironment, Environments |-> environments]

\* yaml.Marshal(c), lines 12-16: both fields are omitempty
marshalCLIConfig(c) ==
    [k \in (IF c.CurrentEnvironment # <<>> THEN {"current_environment"} ELSE {})
           \cup (IF DOMAIN c.Environments # {} THEN {"environments"} ELSE {}) |->
        IF k = "current_environment" THEN c.CurrentEnvironment ELSE c.Environments]

\* no file, and the file os.WriteFile leaves when it fails after truncating
NoFile == [status |-> "missing", doc |-> <<>>]
TruncatedFile == [status |-> "empty", doc |-> <<>>]

\* c.Save(), lines 103-120, for the configuration c: the file after the call
\* and whether an error is returned
Save(c, failed) ==
    IF failed THEN {stored, TruncatedFile}
    ELSE {[status |-> "mapping", doc |-> marshalCLIConfig(c)]}

\* what a method returning c.Save() returns
SaveResult(failed) == IF failed THEN "saveFailed" ELSE "ok"

\* lines 138-145
SetCurrentEnvironment(name) ==
    /\ IF name \notin DOMAIN cliConfig.Environments
       THEN /\ envResult' = "notFound"
            /\ UNCHANGED <<cliConfig, stored>>
       ELSE \E failed \in BOOLEAN :
            /\ cliConfig' = [cliConfig EXCEPT !.CurrentEnvironment = name]
            /\ stored' \in Save(cliConfig', failed)
            /\ envResult' = SaveResult(failed)

\* lines 148-162
AddEnvironment(name, env) ==
    /\ \E failed \in BOOLEAN :
        /\ cliConfig' =
            CLIConfig(IF cliConfig.CurrentEnvironment = <<>>
                      THEN name ELSE cliConfig.CurrentEnvironment,
                      (name :> [env EXCEPT !.Name = name]) @@ cliConfig.Environments)
        /\ stored' \in Save(cliConfig', failed)
        /\ envResult' = SaveResult(failed)

\* RemoveEnvironment leaving CurrentEnvironment on the name it removed
RemoveEnvironment_keepCurrent(name) ==
    /\ IF name \notin DOMAIN cliConfig.Environments
       THEN /\ envResult' = "notFound"
            /\ UNCHANGED <<cliConfig, stored>>
       ELSE LET remaining == [n \in DOMAIN cliConfig.Environments \ {name} |->
                                 cliConfig.Environments[n]]
            IN  \E failed \in BOOLEAN :
                /\ cliConfig' = CLIConfig(cliConfig.CurrentEnvironment, remaining)
                /\ stored' \in Save(cliConfig', failed)
                /\ envResult' = SaveResult(failed)

\* lines 165-182; the range of lines 175-178 yields any of the names left
RemoveEnvironment(name) ==
    /\ IF name \notin DOMAIN cliConfig.Environments
       THEN /\ envResult' = "notFound"
            /\ UNCHANGED <<cliConfig, stored>>
       ELSE LET remaining == [n \in DOMAIN cliConfig.Environments \ {name} |->
                                 cliConfig.Environments[n]]
            IN  \E failed \in BOOLEAN :
                /\ IF cliConfig.CurrentEnvironment = name
                   THEN IF DOMAIN remaining = {}
                        THEN cliConfig' = CLIConfig(<<>>, remaining)
                        ELSE \E envName \in DOMAIN remaining :
                                cliConfig' = CLIConfig(envName, remaining)
                   ELSE cliConfig' = CLIConfig(cliConfig.CurrentEnvironment, remaining)
                /\ stored' \in Save(cliConfig', failed)
                /\ envResult' = SaveResult(failed)

\* the names and the environments the methods are called with
EnvNames == {<<"a">>, <<"b">>, <<"c">>}
EnvInputs == {Environment(<<>>, "t1"), Environment(<<"z">>, "t2")}

\* everything but the CLI configuration
EnvFrame ==
    UNCHANGED <<config, pc, todo, errors, valid, first, loadVars, cliVars, mergeVars,
                besideEnv>>

CallSetCurrentEnvironment ==
    /\ \E name \in EnvNames : SetCurrentEnvironment(name)
    /\ EnvFrame

CallAddEnvironment ==
    /\ \E name \in EnvNames, env \in EnvInputs : AddEnvironment(name, env)
    /\ EnvFrame

CallRemoveEnvironment ==
    /\ \E name \in EnvNames : RemoveEnvironment(name)
    /\ EnvFrame

EnvNext ==
    \/ CallSetCurrentEnvironment
    \/ CallAddEnvironment
    \/ CallRemoveEnvironment

\* a CLI configuration with no environment and no current environment, and
\* no configuration file
EnvInit ==
    /\ cliConfig = CLIConfig(<<>>, <<>>)
    /\ stored = NoFile
    /\ envResult = "none"
    /\ config = EmptyBlimuConfig
    /\ ValidatorIdle
    /\ LoadIdle
    /\ CLIIdle
    /\ MergeIdle
    /\ CycleIdle
    /\ SaveIdle
    /\ OAuthIdle

EnvSpec == EnvInit /\ [][EnvNext]_vars

\* C28: from a CLI configuration without environments, after any calls of
\* AddEnvironment, RemoveEnvironment and SetCurrentEnvironment with non-empty
\* names, whether they succeed or fail, CurrentEnvironment is empty or names
\* an entry of Environments, and is empty only when there is no environment;
\* a call that returns 'not found' changes neither field.
C28_CurrentEnvironmentValid ==
    /\ [](IF cliConfig.CurrentEnvironment = <<>>
          THEN DOMAIN cliConfig.Environments = {}
          ELSE cliConfig.CurrentEnvironment \in DOMAIN cliConfig.Environments)
    /\ [][envResult' = "notFound" => cliConfig' = cliConfig]_vars

\* the current environment was removed while another was left, and the call
\* failed to write the file
C28_Witness ==
    /\ envResult = "saveFailed"
    /\ Cardinality(DOMAIN cliConfig.Environments) = 2
    /\ stored.status = "mapping"
    /\ "environments" \in DOMAIN stored.doc
    /\ Cardinality(DOMAIN stored.doc.environments) = 3
    /\ stored.doc.current_environment \notin DOMAIN cliConfig.Environments

----------------------------------------------------------------------------
(* The OAuth login (cmd/auth/login.go, internal/oauth/server.go).  The     *)
(* command runs on one goroutine; every request to /callback is handled on *)
(* its own, and the deadline of the context passes on its own.  login.go   *)
(* holds two versions of LoginCommand.Run, lines 41-166 and lines 225-396. *)

MaxRequests == 2
Requests == 1..MaxRequests

CallbackResult(code, st, err) == [Code |-> code, State |-> st, Error |-> err]

\* state, err := oauth.GenerateRandomString(32)
AttemptState == "s"

\* the requests a browser, or anyone else on the machine, may send
CallbackResults ==
    {CallbackResult("c", AttemptState, ""),
     CallbackResult("c", "x", ""),
     CallbackResult("", AttemptState, "access_denied")}

\* a handler not started, and one that has served its page
NotArrived == [at |-> "idle", result |-> CallbackResult("", "", "")]
Served == [at |-> "served", result |-> CallbackResult("", "", "")]

\* the server accepts connections from server.Start to the deferred
\* server.Shutdown, and the context lives as long
Listening == cpc \in {"waiting", "received", "exchange", "save"}

S_default == <<"d", "e", "f", "a", "u", "l", "t">>

\* LoadCLIConfig, cli_config.go lines 51-100, on the file and with or without
\* BLIMU_SECRET_KEY in the process environment: what it may return, the
\* range of lines 94-97 yielding any name
LoadCLIConfig(file, secretKey) ==
    IF file.status \in {"unreadable", "malformed"}
    THEN {[ok |-> FALSE, config |-> <<>>]}
    ELSE
        LET doc == IF file.status = "mapping" THEN file.doc ELSE <<>>
            read == CLIConfig(IF "current_environment" \in DOMAIN doc
                              THEN doc.current_environment ELSE <<>>,
                              IF "environments" \in DOMAIN doc
                              THEN doc.environments ELSE <<>>)
            env == IF S_default \in DOMAIN read.Environments
                   THEN read.Environments[S_default]
                   ELSE Environment(<<>>, "")
            overridden ==
                IF secretKey
                THEN CLIConfig(IF read.CurrentEnvironment = <<>>
                               THEN S_default ELSE read.CurrentEnvironment,
                               (S_default :> [env EXCEPT !.Name = S_default])
                                    @@ read.Environments)
                ELSE read
        IN  IF overridden.CurrentEnvironment = <<>>
               /\ DOMAIN overridden.Environments # {}
            THEN {[ok |-> TRUE,
                   config |-> [overridden EXCEPT !.CurrentEnvironment = name]] :
                        name \in DOMAIN overridden.Environments}
            ELSE {[ok |-> TRUE, config |-> overridden]}

\* everything the login does not touch
LoginFrame ==
    UNCHANGED <<config, pc, todo, errors, valid, first, loadVars, command, clientAt,
                payload, mergeVars, besideLogin>>

\* Run storing an environment without tokens before it waits for the callback
LoginCommand_Run_pendingEnvironment ==
    /\ command.name \in {"LoginCommand.Run", "LoginCommand.Run (earlier)"}
    /\ cpc = "start"
    /\ \E secretKey \in BOOLEAN :
        \E l \in LoadCLIConfig(stored, secretKey) :
        IF ~l.ok
        THEN /\ Exit(1)
             /\ UNCHANGED envVars
        ELSE   /\ \/ /\ Exit(1)
                     /\ cliConfig' = l.config
                     /\ UNCHANGED <<stored, envResult>>
                  \/ /\ cpc' = "waiting"
                     /\ LET c == l.config
                            name == <<"a">>
                            next == CLIConfig(IF c.CurrentEnvironment = <<>>
                                              THEN name ELSE c.CurrentEnvironment,
                                              (name :> Environment(name, ""))
                                                    @@ c.Environments)
                        IN  /\ cliConfig' = next
                            /\ stored' = [status |-> "mapping",
                                          doc |-> marshalCLIConfig(next)]
                     /\ UNCHANGED <<exitCode, envResult>>
    /\ UNCHANGED <<calls, oauthVars>>
    /\ LoginFrame

\* Run up to the call of WaitForCallback: lines 227-306 (earlier version
\* lines 43-119).  LoadCLIConfig, NewCallbackServer, GeneratePKCEChallenge or
\* GenerateRandomString may fail.
LoginCommand_Run ==
    /\ command.name \in {"LoginCommand.Run", "LoginCommand.Run (earlier)"}
    /\ cpc = "start"
    /\ \E secretKey \in BOOLEAN :
        \E l \in LoadCLIConfig(stored, secretKey) :
        IF ~l.ok
        THEN /\ Exit(1)
             /\ UNCHANGED envVars
        ELSE   /\ cliConfig' = l.config
               /\ \/ Exit(1)
                  \/ /\ cpc' = "waiting"
                     /\ UNCHANGED exitCode
               /\ UNCHANGED <<stored, envResult>>
    /\ UNCHANGED <<calls, oauthVars>>
    /\ LoginFrame

\* context.WithTimeout(context.Background(), 5*time.Minute): the deadline passes
Expire ==
    /\ Listening
    /\ ~ctxDone
    /\ ctxDone' = TRUE
    /\ UNCHANGED <<cpc, exitCode, calls, envVars, codeChan, handlers, delivered, accepted>>
    /\ LoginFrame

\* a request reaches /callback: server.go lines 75-82.  The requests are
\* numbered in the order they arrive.
Request(r) ==
    /\ Listening
    /\ handlers[r].at = "idle"
    /\ \A q \in 1..(r - 1) : handlers[q].at # "idle"
    /\ \E res \in CallbackResults :
        handlers' = [handlers EXCEPT ![r] = [at |-> "send", result |-> res]]
    /\ UNCHANGED <<cpc, exitCode, calls, envVars, codeChan, ctxDone, delivered, accepted>>
    /\ LoginFrame

\* the handler sending on the channel with no default case
handleCallback_blocking(r) ==
    /\ handlers[r].at = "send"
    /\ Len(codeChan) < 1
    /\ codeChan' = Append(codeChan, handlers[r].result)
    /\ accepted' = Append(accepted, handlers[r].result)
    /\ handlers' = [handlers EXCEPT ![r] = Served]
    /\ UNCHANGED <<cpc, exitCode, calls, envVars, ctxDone, delivered>>
    /\ LoginFrame

\* server.go lines 84-97: the select with a default case, then the page
handleCallback(r) ==
    /\ handlers[r].at = "send"
    /\ IF Len(codeChan) < 1
       THEN /\ codeChan' = Append(codeChan, handlers[r].result)
            /\ accepted' = Append(accepted, handlers[r].result)
       ELSE UNCHANGED <<codeChan, accepted>>
    /\ handlers' = [handlers EXCEPT ![r] = Served]
    /\ UNCHANGED <<cpc, exitCode, calls, envVars, ctxDone, delivered>>
    /\ LoginFrame

\* what WaitForCallback returns: a result and nil, or the zero result and
\* ctx.Err()
Returned(res, err) == [result |-> res, err |-> err]

\* server.go lines 63-70: the select takes a case that is ready, either one
\* when both are
WaitForCallback ==
    /\ cpc = "waiting"
    /\ \/ /\ codeChan # <<>>
          /\ delivered' = Append(delivered, Returned(Head(codeChan), FALSE))
          /\ codeChan' = Tail(codeChan)
       \/ /\ ctxDone
          /\ delivered' = Append(delivered, Returned(CallbackResult("", "", ""), TRUE))
          /\ UNCHANGED codeChan
    /\ cpc' = "received"
    /\ UNCHANGED <<exitCode, calls, envVars, handlers, ctxDone, accepted>>
    /\ LoginFrame

\* the checks of lines 309-319 without the comparison of the state
LoginRun_check_noStateCheck ==
    /\ cpc = "received"
    /\ LET d == delivered[Len(delivered)] IN
       IF d.err \/ d.result.Error # ""
       THEN Exit(1)
       ELSE /\ cpc' = "exchange"
            /\ UNCHANGED exitCode
    /\ UNCHANGED <<calls, envVars, oauthVars>>
    /\ LoginFrame

\* lines 309-319 (earlier version lines 121-131)
LoginRun_check ==
    /\ cpc = "received"
    /\ LET d == delivered[Len(delivered)] IN
       IF d.err
       THEN Exit(1)
       ELSE IF d.result.Error # ""
       THEN Exit(1)
       ELSE IF d.result.State # AttemptState
       THEN Exit(1)
       ELSE /\ cpc' = "exchange"
            /\ UNCHANGED exitCode
    /\ UNCHANGED <<calls, envVars, oauthVars>>
    /\ LoginFrame

\* lines 326-329 (earlier version lines 136-139): the request carries the
\* context, so it fails once the context is done
LoginRun_exchange ==
    /\ cpc = "exchange"
    /\ \/ /\ calls' = Append(calls, Call("ExchangeCodeForTokens", "error"))
          /\ Exit(1)
       \/ /\ ~ctxDone
          /\ calls' = Append(calls, Call("ExchangeCodeForTokens", "ok"))
          /\ cpc' = "save"
          /\ UNCHANGED exitCode
    /\ UNCHANGED <<envVars, oauthVars>>
    /\ LoginFrame

\* lines 332-370: fetchUserWorkspaceAndEnvironment, then AddEnvironment under
\* the environment ID it found (earlier version lines 142-157: AddEnvironment
\* under c.Environment)
LoginRun_save ==
    /\ cpc = "save"
    /\ IF command.name = "LoginCommand.Run"
       THEN \/ \* the fetch fails, or finds no workspace or no environment
               /\ calls' = Append(calls, Call("fetchUserWorkspaceAndEnvironment", "error"))
               /\ Exit(1)
               /\ UNCHANGED envVars
            \/ /\ calls' = Append(calls, Call("fetchUserWorkspaceAndEnvironment", "ok"))
               /\ \E environmentID \in {<<"a">>, <<"e">>} :
                    AddEnvironment(environmentID, Environment(<<>>, "token"))
               /\ Exit(IF envResult' = "ok" THEN 0 ELSE 1)
       ELSE /\ \E name \in {<<"a">>, <<"e">>} :
                AddEnvironment(name, Environment(name, "token"))
            /\ Exit(IF envResult' = "ok" THEN 0 ELSE 1)
            /\ UNCHANGED calls
    /\ UNCHANGED oauthVars
    /\ LoginFrame

LoginNext ==
    \/ LoginCommand_Run
    \/ Expire
    \/ \E r \in Requests : Request(r)
    \/ \E r \in Requests : handleCallback(r)
    \/ WaitForCallback
    \/ LoginRun_check
    \/ LoginRun_exchange
    \/ LoginRun_save

\* the CLI configuration file before the login
LoginFiles ==
    {NoFile,
     [status |-> "malformed", doc |-> <<>>],
     [status |-> "mapping",
      doc |-> marshalCLIConfig(CLIConfig(<<"a">>, <<"a">> :> Environment(<<"a">>, "old")))]}

LoginInit ==
    /\ command \in {Command("LoginCommand.Run", FALSE, FALSE),
                    Command("LoginCommand.Run (earlier)", FALSE, FALSE)}
    /\ cpc = "start"
    /\ clientAt = 0
    /\ calls = <<>>
    /\ exitCode = -1
    /\ payload = <<>>
    /\ stored \in LoginFiles
    /\ cliConfig = <<>>
    /\ envResult = "none"
    /\ codeChan = <<>>
    /\ handlers = [r \in Requests |-> NotArrived]
    /\ ctxDone = FALSE
    /\ delivered = <<>>
    /\ accepted = <<>>
    /\ config = EmptyBlimuConfig
    /\ ValidatorIdle
    /\ LoadIdle
    /\ MergeIdle
    /\ CycleIdle
    /\ SaveIdle

\* the command and every handler go on when they can, and the deadline of the
\* context passes
LoginFairness ==
    /\ WF_vars(Expire)
    /\ WF_vars(WaitForCallback)
    /\ WF_vars(LoginRun_check)
    /\ WF_vars(LoginRun_exchange)
    /\ WF_vars(LoginRun_save)
    /\ \A r \in Requests : WF_vars(handleCallback(r))

LoginSpec == LoginInit /\ [][LoginNext]_vars /\ LoginFairness

\* C29: however many requests reach /callback, and however their handlers
\* interleave, a handler that has come to send its result goes on to serve
\* its page; WaitForCallback returns at most once, and if with a result then
\* with the first one sent into the channel; a result that finds the slot of
\* the channel taken is dropped; and WaitForCallback, once called, returns,
\* with a result or with the error of the context.
C29_OneCallbackDelivered ==
    /\ \A r \in Requests : (handlers[r].at = "send") ~> (handlers[r].at = "served")
    /\ [](Len(delivered) <= 1)
    /\ [](\A i \in 1..Len(delivered) :
            ~delivered[i].err =>
                /\ accepted # <<>>
                /\ delivered[i].result = accepted[1])
    /\ [][\A r \in Requests :
            (handlers[r].at = "send" /\ handlers'[r].at = "served" /\ Len(codeChan) = 1)
                => (codeChan' = codeChan /\ accepted' = accepted)]_vars
    /\ (cpc = "waiting") ~> (Len(delivered) = 1)

\* two requests were handled while the slot of the channel was taken: the
\* result of one was returned by WaitForCallback, the other was dropped
C29_Witness ==
    /\ Cardinality({r \in Requests : handlers[r].at = "served"}) >= 2
    /\ Len(delivered) = 1
    /\ ~delivered[1].err
    /\ Len(accepted) = 1
    /\ codeChan = <<>>
    /\ cpc = "exited"

\* WaitForCallback returned the error of the context
TimedOut == delivered # <<>> /\ delivered[1].err

\* the calls of ExchangeCodeForTokens made
Exchanges == {i \in 1..Len(calls) : calls[i].api = "ExchangeCodeForTokens"}

\* the login has returned an error
LoginFailed == cpc = "exited" /\ exitCode = 1

\* C21: when the deadline passes, or the wait is cancelled, before a callback
\* is received, the login returns an error, no token exchange is made, and
\* the CLI configuration file is what it was before the attempt.
C21_TimeoutLeavesNothing ==
    /\ \A f \in LoginFiles :
        (stored = f) =>
            [](TimedOut =>
                /\ stored = f
                /\ Exchanges = {}
                /\ cpc \in {"received", "exited"}
                /\ cpc = "exited" => exitCode = 1)
    /\ TimedOut ~> LoginFailed

\* the deadline passed with a callback in the channel, and the login failed
\* with the configuration file of before
C21_Witness ==
    /\ TimedOut
    /\ LoginFailed
    /\ codeChan # <<>>
    /\ stored.status = "mapping"
    /\ calls = <<>>

\* WaitForCallback returned a result without error whose state is the one
\* generated for this attempt
ValidCallback ==
    /\ delivered # <<>>
    /\ ~delivered[1].err
    /\ delivered[1].result.Error = ""
    /\ delivered[1].result.State = AttemptState

\* WaitForCallback returned a result carrying an error or another state
InvalidCallback == delivered # <<>> /\ ~delivered[1].err /\ ~ValidCallback

\* C30: tokens are exchanged, and the configuration file is written, only
\* after a callback without error and with the state of this attempt was
\* received; a callback with an error or another state makes the login
\* fail with no token exchange and the configuration file as before.
C30_ExchangeOnlyAfterValidCallback ==
    /\ [](Exchanges # {} => ValidCallback)
    /\ [][stored' # stored =>
            /\ ValidCallback
            /\ \E i \in Exchanges : calls[i].result = "ok"]_vars
    /\ \A f \in LoginFiles :
        (stored = f) =>
            [](InvalidCallback =>
                /\ stored = f
                /\ Exchanges = {}
                /\ cpc = "exited" => exitCode = 1)
    /\ InvalidCallback ~> LoginFailed

\* a request with another state was dropped, the callback of this attempt was
\* received, and the environment was stored
C30_Witness ==
    /\ cpc = "exited"
    /\ exitCode = 0
    /\ ValidCallback
    /\ \E r \in Requests : handlers[r].at = "served"
    /\ \E i \in Exchanges : calls[i].result = "ok"
    /\ stored.status = "mapping"
    /\ <<"e">> \in DOMAIN stored.doc.environments

====
